---- MODULE Spec2Model ----
(***************************************************************************)
(* Model of the trajectory trail of pl_gui:                                *)
(*   src/src/dashboard/widgets/RobotTrajectoryWidget.py                    *)
(* TrajectoryManager (bounded trail buffer, interpolation, deferred        *)
(* breaks), draw_smooth_trail (segmentation, smoothing, line drawing) and  *)
(* the display tick of RobotTrajectoryWidget.                              *)
(*                                                                         *)
(* Spec      : every handler is one atomic action (calls do not overlap).  *)
(* SpecConc  : a producer thread runs update_position statement by         *)
(*             statement while the UI thread runs clear_trail, the display *)
(*             tick and break_trajectory; the lock is modelled explicitly. *)
(* SpecInterp: two update_position calls over a wide grid of positions,    *)
(*             for the arithmetic of add_interpolated_points.              *)
(* SpecImage : set_image, update_position, the drawing switch and the       *)
(*             display tick, one call at a time (background frames).       *)
(* SpecDraw  : one display tick over every short snapshot of the buffer.   *)
(* SpecFault : the same tick over snapshots that hold NaN coordinates,     *)
(*             where draw_smooth_trail raises in int().                    *)
(*                                                                         *)
(* And of the dashboard widgets:                                           *)
(*   src/src/dashboard/widgets/ControlButtonsWidget.py                     *)
(*   src/src/dashboard/DashboardWidget.py                                  *)
(*   src/src/dashboard/app/BasicDashboardAppWidget.py                      *)
(*   src/src/dashboard/layout/layout_manager.py                            *)
(*   src/src/utils/utils_widgets/wizards.py                                *)
(* SpecButtons: ControlButtonsWidget on its own (setters, clicks,          *)
(*             retranslateUi, changeEvent).                                *)
(* SpecApp   : BasicDashboardAppWidget over its DashboardWidget: signal    *)
(*             chains, card registry and cell setters, retranslation.      *)
(* SpecWizard: ConfigurableWizard: construction, button replacement and    *)
(*             the Finish connection.                                      *)
(* SpecGrid  : one call of _create_action_grid over small button lists.    *)
(***************************************************************************)
EXTENDS Integers, Sequences, FiniteSets, TLC

VARIABLES
    trajectory_points,          \* TrajectoryManager.trajectory_points (deque)
    current_position,           \* TrajectoryManager.current_position
    last_position,              \* TrajectoryManager.last_position
    trajectory_break_pending,   \* TrajectoryManager.trajectory_break_pending
    lock,                       \* TrajectoryManager._lock: "free" or its holder
    drawing_enabled,            \* RobotTrajectoryWidget.drawing_enabled
    current_frame,              \* RobotTrajectoryWidget.current_frame: the lines drawn on the copy
    base_frame,                 \* RobotTrajectoryWidget.base_frame: the background image
    trajectory_points_copy,     \* the list last returned by get_trajectory_copy
    prod,                       \* producer thread: position in update_position and its locals
    ui,                         \* UI thread: position in clear_trail / update_display
    nUpdates,                   \* history: number of update_position calls started
    hist,                       \* history: samples appended since the buffer was last emptied
    inputs,                     \* history: inputs[k] is the argument of the k-th update_position
    call,                       \* history: the last completed operation and the state before it
    btn_enabled,                \* ControlButtonsWidget: isEnabled() of the three buttons
    btn_text,                   \* ControlButtonsWidget: text() of the three buttons
    language,                   \* the language of the installed translator
    app,                        \* BasicDashboardAppWidget: its construction, its _dashboard
    cards,                      \* DashboardWidget._cards: card_id -> card widget
    wizard,                     \* ConfigurableWizard: its buttons, their connections, its page
    grid,                       \* _create_action_grid: its input and the widgets it has added
    lastSet,                    \* history: argument of the last set_*_enabled call per button
    trace,                      \* history: signals emitted and calls made by the last operation
    widgetOp                    \* history: the last operation on a widget and the state before it

\* the trajectory widget and its manager
trajectoryVars ==
    <<trajectory_points, current_position, last_position, trajectory_break_pending,
      lock, drawing_enabled, current_frame, base_frame, trajectory_points_copy, prod, ui,
      nUpdates, hist, inputs, call>>

\* the dashboard widgets around it
guiVars == <<btn_enabled, btn_text, language, app, cards, wizard, grid, lastSet, trace, widgetOp>>

vars == <<trajectoryVars, guiVars>>

----------------------------------------------------------------------------
(* Bounds of the model *)

\* capacity of the trail buffer (trail_length of the constructor; 100 by default)
trail_length == 5

\* number of update_position calls in a run of Spec
MaxUpdates == 3

\* number of update_position calls in a run of SpecConc
MaxConcUpdates == 3

\* number of break_trajectory calls between two update_position calls
MaxBreaks == 2

\* SpecInterp draws x from -GridX..GridX (and 100) and y from -GridY..GridY
GridX == 12

GridY == 1

\* longest list handed to draw_smooth_trail in SpecDraw
MaxSnapshot == 7

\* longest list handed to draw_smooth_trail in SpecFault
MaxFaultSnapshot == 5

\* longest list of cards a DashboardWidget is built with in SpecApp
MaxCards == 2

\* most pages of a ConfigurableWizard, and how often it is shown, in SpecWizard
MaxPages == 3

MaxShows == 2

\* longest list of action buttons and largest grid in SpecGrid
MaxActionButtons == 2

MaxGridSide == 2

(* Program constants *)

num_interpolated == 3

DistanceThreshold == 5

kernel_size == 3

RecentCount == 5

image_width == 640

image_height == 360

\* interpolate_motion is set to True in __init__ and assigned nowhere else
interpolate_motion == TRUE

\* Python's None, for the Optional[(int, int)] position fields
None == << >>

\* float("nan") as a coordinate; every other coordinate of the model is an integer
\* far from this one
NaN == -1000000

\* positions fed to update_position in Spec: (0,0)->(3,4) is exactly 5 apart,
\* (12,0) is far from both
Positions == { <<0, 0>>, <<3, 4>>, <<12, 0>> }

ConcPositions == { <<0, 0>>, <<12, 0>> }

GridPositions == { <<x, y>> : x \in (-GridX..GridX) \cup {100}, y \in -GridY..GridY }

\* coordinates of the samples drawn in SpecDraw: 5 apart, so that update_position
\* appends them without interpolating; (-2,0) lies outside the image
SnapCoords == { <<-2, 0>>, <<2, 3>> }

\* coordinates of the lists drawn in SpecFault: two points inside the image and
\* a sample whose x is NaN (TrajectoryManager.update_position stores any pair)
FaultCoords == { <<2, 3>>, <<7, 1>>, <<NaN, 0>> }

\* a list of samples with coordinates and break tags f[k], the k-th stamped k
SnapshotList(f) == [ k \in DOMAIN f |-> << f[k][1][1], f[k][1][2], k, f[k][2] >> ]

----------------------------------------------------------------------------
(* Arithmetic *)

Min(a, b) == IF a <= b THEN a ELSE b

Max(a, b) == IF a >= b THEN a ELSE b

\* a // b in place of int(a / b): rounds toward minus infinity
FloorDiv(a, b) == a \div b

\* int(a / b) of Python for b > 0: truncation toward zero
TruncDiv(a, b) == IF a >= 0 THEN a \div b ELSE -((-a) \div b)

\* distance >= 5 in place of distance > 5
DistanceAtLeast(start_pos, end_pos) ==
    LET dx == end_pos[1] - start_pos[1]
        dy == end_pos[2] - start_pos[2]
    IN  dx * dx + dy * dy >= DistanceThreshold * DistanceThreshold

\* distance > 5 with distance = np.sqrt(dx**2 + dy**2): the correctly rounded
\* square root of an integer exceeds 5 exactly when the integer exceeds 25
DistanceExceeds(start_pos, end_pos) ==
    LET dx == end_pos[1] - start_pos[1]
        dy == end_pos[2] - start_pos[2]
    IN  dx * dx + dy * dy > DistanceThreshold * DistanceThreshold

\* int(start + t * (end - start)) with t = i / (num_interpolated + 1); t is a
\* multiple of 1/4, so the float product and sum are exact
InterpCoord(start, end, i) ==
    TruncDiv(start * (num_interpolated + 1) + i * (end - start), num_interpolated + 1)

\* the i-th point appended by the loop of add_interpolated_points
InterpSample(start_pos, end_pos, i, current_time) ==
    << InterpCoord(start_pos[1], end_pos[1], i),
       InterpCoord(start_pos[2], end_pos[2], i),
       current_time, FALSE >>

EndSample(end_pos, current_time) == << end_pos[1], end_pos[2], current_time, FALSE >>

\* how many points the loop of add_interpolated_points appends
InterpCount(start_pos, end_pos) ==
    IF DistanceExceeds(start_pos, end_pos) THEN num_interpolated ELSE 0

\* an add_interpolated_points without its line 101
InterpolatedSamplesWithoutEnd(start_pos, end_pos, current_time) ==
    [ i \in 1..InterpCount(start_pos, end_pos) |->
        InterpSample(start_pos, end_pos, i, current_time) ]

\* everything add_interpolated_points appends inside its locked block, in order
InterpolatedSamples(start_pos, end_pos, current_time) ==
    [ i \in 1..InterpCount(start_pos, end_pos) |->
        InterpSample(start_pos, end_pos, i, current_time) ]
    \o << EndSample(end_pos, current_time) >>

----------------------------------------------------------------------------
(* The deque *)

\* a deque built without maxlen
DequeAppendUnbounded(dq, s) == Append(dq, s)

\* a full buffer that refuses the new sample instead of dropping the oldest
DequeAppendDropNewest(dq, s) == IF Len(dq) >= trail_length THEN dq ELSE Append(dq, s)

\* deque(maxlen = trail_length).append: a full deque drops its oldest element
DequeAppend(dq, s) ==
    IF trail_length = 0 THEN << >>
    ELSE IF Len(dq) >= trail_length THEN Append(Tail(dq), s)
    ELSE Append(dq, s)

RECURSIVE DequeExtend(_, _)
DequeExtend(dq, ss) ==
    IF ss = << >> THEN dq ELSE DequeExtend(DequeAppend(dq, Head(ss)), Tail(ss))

\* list(self.trajectory_points): a new list, not the deque itself
ListCopy(dq) == [alias |-> FALSE, data |-> dq]

\* what a holder of the returned list reads from it
View(lst) == IF lst.alias THEN trajectory_points ELSE lst.data

----------------------------------------------------------------------------
(* draw_smooth_trail *)

\* the element (x, y) a sample contributes to a segment; idx records which
\* sample of the list it came from
SegmentPoint(points, k) == [xy |-> << points[k][1], points[k][2] >>, idx |-> k]

\* a renderer in which a break closes only a segment of two or more points
ClosesSegmentLongOnly(is_break, current_segment) == is_break /\ Len(current_segment) > 1

\* a renderer that ignores the break tags
ClosesSegmentNever(is_break, current_segment) == FALSE

\* "if is_break and current_segment": a break sample closes a non-empty segment
ClosesSegment(is_break, current_segment) == is_break /\ current_segment # << >>

\* a renderer that keeps every segment it closes, whatever its length
KeepSegmentAlways(segments, current_segment) == Append(segments, current_segment)

\* "if len(current_segment) > 1: segments.append(current_segment)"
KeepSegment(segments, current_segment) ==
    IF Len(current_segment) > 1 THEN Append(segments, current_segment) ELSE segments

\* the loop over trajectory_points_with_breaks from sample k on, then the
\* append of the last segment
RECURSIVE SplitSegments(_, _, _, _)
SplitSegments(points, k, segments, current_segment) ==
    IF k > Len(points) THEN KeepSegment(segments, current_segment)
    ELSE IF ClosesSegment(points[k][4], current_segment)
         THEN SplitSegments(points, k + 1, KeepSegment(segments, current_segment),
                            << SegmentPoint(points, k) >>)
         ELSE SplitSegments(points, k + 1, segments,
                            Append(current_segment, SegmentPoint(points, k)))

Segments(points) == SplitSegments(points, 1, << >>, << >>)

RECURSIVE SumCoord(_, _, _, _)
SumCoord(segment, c, from, to) ==
    IF from > to THEN 0 ELSE segment[from].xy[c] + SumCoord(segment, c, from + 1, to)

\* a smoothing window that reaches one point further back
WindowStartWide(i) == Max(1, i - kernel_size)

\* first index (1-based) of the smoothing window that ends at i
WindowStart(i) == Max(1, i - kernel_size + 1)

\* smoothed_points[i]: (int(np.mean(xs[start:i+1])), int(np.mean(ys[start:i+1])));
\* the float32 mean of up to three small integers truncates like their exact mean
SmoothedPoint(segment, i) ==
    LET start == WindowStart(i)
        n     == i - start + 1
    IN  [xy   |-> << TruncDiv(SumCoord(segment, 1, start, i), n),
                     TruncDiv(SumCoord(segment, 2, start, i), n) >>,
         from |-> { segment[j].idx : j \in start..i }]

SmoothedPoints(segment) == [ i \in 1..Len(segment) |-> SmoothedPoint(segment, i) ]

\* the bounds test that guards every cv2.line call
InImage(p) == 0 <= p[1] /\ p[1] < image_width /\ 0 <= p[2] /\ p[2] < image_height

\* a bounds test that looks at the first endpoint only
LineInImageFirstOnly(line) == InImage(line.p1)

LineInImage(line) == InImage(line.p1) /\ InImage(line.p2)

\* line 204: progress = (i + 1) / total of loop index i, as the fraction
\* << numerator, denominator >>
Progress(i, total) == << i + 1, total >>

\* colour band of progress = (i + 1) / total: below 0.3, below 0.7, the rest
ColourBand(i, total) ==
    IF 10 * (i + 1) < 3 * total THEN 1
    ELSE IF 10 * (i + 1) < 7 * total THEN 2
    ELSE 3

\* a renderer whose lines get thinner with progress
ThicknessShrinking(i, total) == Max(1, 6 - (4 * (i + 1)) \div total)

\* max(1, int(2 + progress * 4)) with progress = (i + 1) / total
Thickness(i, total) == Max(1, 2 + (4 * (i + 1)) \div total)

\* the trail line of loop index i (0-based, as in the code)
TrailLine(smoothed, i) ==
    [kind |-> "trail", p1 |-> smoothed[i + 1].xy, p2 |-> smoothed[i + 2].xy,
     from1 |-> smoothed[i + 1].from, from2 |-> smoothed[i + 2].from,
     thickness |-> Thickness(i, Len(smoothed)), band |-> ColourBand(i, Len(smoothed)),
     i |-> i, total |-> Len(smoothed)]

TrailLines(smoothed) ==
    SelectSeq([ j \in 1..(Len(smoothed) - 1) |-> TrailLine(smoothed, j - 1) ], LineInImage)

\* the two strokes drawn for pair i (0-based) of recent_points = smoothed_points[-5:]
HighlightLine(smoothed, i, kind, thickness) ==
    LET off == Len(smoothed) - RecentCount
    IN  [kind |-> kind, p1 |-> smoothed[off + i + 1].xy, p2 |-> smoothed[off + i + 2].xy,
         from1 |-> smoothed[off + i + 1].from, from2 |-> smoothed[off + i + 2].from,
         thickness |-> thickness, band |-> 0, i |-> i, total |-> Len(smoothed)]

HighlightLines(smoothed) ==
    IF Len(smoothed) > RecentCount
    THEN SelectSeq([ j \in 1..(2 * (RecentCount - 1)) |->
                       IF j % 2 = 1
                       THEN HighlightLine(smoothed, (j - 1) \div 2, "halo", 6)
                       ELSE HighlightLine(smoothed, (j - 1) \div 2, "core", 2) ],
                   LineInImage)
    ELSE << >>

\* every cv2.line call made for one segment, in order
SegmentLines(segment) ==
    IF Len(segment) < 2 THEN << >>
    ELSE TrailLines(SmoothedPoints(segment)) \o HighlightLines(SmoothedPoints(segment))

\* lines 197-199: int(avg_x) or int(avg_y) raises ValueError when the mean is
\* NaN, which it is as soon as a coordinate of the window is NaN; the smoothing
\* loop runs over the whole segment before the first cv2.line of the segment
SegmentRaises(segment) ==
    /\ Len(segment) >= 2
    /\ \E j \in 1..Len(segment) : segment[j].xy[1] = NaN \/ segment[j].xy[2] = NaN

\* the loop "for segment in segments" from segment k on: an exception raised in
\* a segment leaves the loop, nothing inside draw_smooth_trail catches it
RECURSIVE AllSegmentLines(_, _)
AllSegmentLines(segments, k) ==
    IF k > Len(segments) THEN << >>
    ELSE IF SegmentRaises(segments[k]) THEN << >>
    ELSE SegmentLines(segments[k]) \o AllSegmentLines(segments, k + 1)

\* draw_smooth_trail(image, points): the lines it draws on image
DrawSmoothTrail(points) ==
    IF Len(points) < 2 THEN << >> ELSE AllSegmentLines(Segments(points), 1)

\* the exception draw_smooth_trail(image, points) raises, "none" when it returns
DrawSmoothTrailRaises(points) ==
    IF Len(points) >= 2
       /\ \E k \in 1..Len(Segments(points)) : SegmentRaises(Segments(points)[k])
    THEN "ValueError"
    ELSE "none"

----------------------------------------------------------------------------
(* ControlButtonsWidget, DashboardWidget, BasicDashboardAppWidget: signals *)

Buttons == {"start", "stop", "pause"}

Languages == {"en", "bg"}

\* self.tr(source): the text shown for source under the translator of lang
Tr(lang, source) == << lang, source >>

\* the source texts of init_ui and retranslateUi
DefaultText(b) ==
    CASE b = "start" -> "Start"
      [] b = "stop"  -> "Stop"
      [] b = "pause" -> "Pause"

\* the default of the parameter enabled of _create_button
CreateButtonEnabled == FALSE

\* source texts of the strings callers hand to set_pause_text
PauseTexts == {"Resume", "Pause"}

\* a retranslateUi that leaves the pause button alone
RetranslatedKeepsPause(t, lang) ==
    [ b \in Buttons |-> IF b = "pause" THEN t[b] ELSE Tr(lang, DefaultText(b)) ]

\* retranslateUi: the three setText calls
Retranslated(t, lang) == [ b \in Buttons |-> Tr(lang, DefaultText(b)) ]

Setters == {"set_start_enabled", "set_stop_enabled", "set_pause_enabled"}

\* set_stop_enabled written with start_btn
SetterTargetStopOnStart(setter) ==
    CASE setter = "set_start_enabled" -> "start"
      [] setter = "set_stop_enabled"  -> "start"
      [] setter = "set_pause_enabled" -> "pause"

\* the button each setter calls setEnabled on
SetterTarget(setter) ==
    CASE setter = "set_start_enabled" -> "start"
      [] setter = "set_stop_enabled"  -> "stop"
      [] setter = "set_pause_enabled" -> "pause"

\* one entry of trace: obj emitted signal name with arguments arg, or obj.name(arg)
\* was called
Ev(obj, name, arg) == [obj |-> obj, name |-> name, arg |-> arg]

RECURSIVE Flatten(_)
Flatten(seqs) == IF seqs = << >> THEN << >> ELSE Head(seqs) \o Flatten(Tail(seqs))

\* connect_signals: the signals whose emit is connected to clicked of button b
ButtonSlots(b) ==
    CASE b = "start" -> << "start_clicked" >>
      [] b = "stop"  -> << "stop_clicked" >>
      [] b = "pause" -> << "pause_clicked" >>

\* DashboardWidget.init_ui: the signals whose emit is connected to a signal of
\* control_buttons
DashboardSlots(sig) ==
    CASE sig = "start_clicked" -> << "start_requested" >>
      [] sig = "stop_clicked"  -> << "stop_requested" >>
      [] sig = "pause_clicked" -> << "pause_requested" >>

DashboardSignals == {"start_requested", "stop_requested", "pause_requested", "action_requested"}

\* a setup_ui that connects stop_requested of the dashboard to both stop_requested
\* and pause_requested
AppSlotsStopAlsoPauses(sig) ==
    IF sig = "stop_requested" THEN << "stop_requested", "pause_requested" >> ELSE << sig >>

\* BasicDashboardAppWidget.setup_ui: the signals whose emit is connected to a
\* signal of _dashboard
AppSlots(sig) ==
    CASE sig = "start_requested"  -> << "start_requested" >>
      [] sig = "stop_requested"   -> << "stop_requested" >>
      [] sig = "pause_requested"  -> << "pause_requested" >>
      [] sig = "action_requested" -> << "action_requested" >>

\* the widget built by setup_ui emits sig(arg)
AppSignal(sig, arg) == << Ev("app", sig, arg) >>

\* the DashboardWidget emits sig(arg); its signals reach the app widget when it
\* is the one setup_ui built and connected
DashboardSignal(sig, arg, connected) ==
    << Ev("dashboard", sig, arg) >>
    \o (IF connected
        THEN Flatten([ k \in DOMAIN AppSlots(sig) |-> AppSignal(AppSlots(sig)[k], arg) ])
        ELSE << >>)

\* the ControlButtonsWidget emits sig; a widget inside a DashboardWidget has its
\* signals connected by init_ui
ControlSignal(sig, inDashboard, connected) ==
    << Ev("control", sig, << >>) >>
    \o (IF inDashboard
        THEN Flatten([ k \in DOMAIN DashboardSlots(sig) |->
                         DashboardSignal(DashboardSlots(sig)[k], << >>, connected) ])
        ELSE << >>)

\* a click on button b: a disabled button swallows it, an enabled one emits
\* clicked once
ButtonClick(b, isEnabled, inDashboard, connected) ==
    IF isEnabled
    THEN Flatten([ k \in DOMAIN ButtonSlots(b) |->
                     ControlSignal(ButtonSlots(b)[k], inDashboard, connected) ])
    ELSE << >>

----------------------------------------------------------------------------
(* DashboardWidget and BasicDashboardAppWidget: construction and cards *)

\* the parameters of BasicDashboardAppWidget.__init__ besides self
AppWidgetParams == {"parent"}

\* a call f(**kwargs) binds when every keyword names a parameter of f; otherwise
\* Python raises TypeError before the body runs
Binds(params, kwargs) == kwargs \subseteq params

\* the keyword sets constructor calls are made with: none, parent only, and the
\* three of the fixture app_widget
KwargSets == { {}, {"parent"}, {"config", "action_buttons", "cards"} }

CardWidgets == {"card_a", "card_b"}

CardIds == {1, 2}

\* values handed to the cell setters
CellValues == {"v1", "v2"}

CellSetters == {"set_cell_weight", "set_cell_state", "set_cell_glue_type"}

\* the setter of the card each cell setter calls
CardSetter(kind) ==
    CASE kind = "set_cell_weight"    -> "set_weight"
      [] kind = "set_cell_state"     -> "set_state"
      [] kind = "set_cell_glue_type" -> "set_glue_type"

\* d[k] = v of a dict
DictSet(d, k, v) == [ x \in DOMAIN d \cup {k} |-> IF x = k THEN v ELSE d[x] ]

\* a lookup that returns the first card of the dict whatever the key
DictGetAny(d, k) ==
    IF DOMAIN d = {} THEN << >> ELSE << d[CHOOSE x \in DOMAIN d : TRUE] >>

\* d.get(k): the value in a one-element tuple, the empty tuple for None
DictGet(d, k) == IF k \in DOMAIN d THEN << d[k] >> ELSE << >>

\* the empty dict
EmptyDict == << >>

\* _register_cards: self._cards[card_id] = widget for each (widget, card_id, ...)
RECURSIVE RegisterCards(_, _)
RegisterCards(registry, cards_input) ==
    IF cards_input = << >> THEN registry
    ELSE RegisterCards(DictSet(registry, Head(cards_input)[2], Head(cards_input)[1]),
                       Tail(cards_input))

\* DashboardWidget.set_cell_weight / set_cell_state / set_cell_glue_type:
\* "if card := self._cards.get(card_id): card.set_...(v)"
DashboardSetCell(kind, card_id, v, registry) ==
    << Ev("dashboard", kind, << card_id, v >>) >>
    \o (IF DictGet(registry, card_id) # << >>
        THEN << Ev(DictGet(registry, card_id)[1], CardSetter(kind), << v >>) >>
        ELSE << >>)

\* BasicDashboardAppWidget.set_cell_weight / set_cell_state / set_cell_glue_type
AppSetCell(kind, card_id, v, registry) ==
    << Ev("app", kind, << card_id, v >>) >> \o DashboardSetCell(kind, card_id, v, registry)

\* ControlButtonsWidget.retranslateUi is called
ControlRetranslate == << Ev("control", "retranslateUi", << >>) >>

\* DashboardWidget.retranslateUi: self.control_buttons.retranslateUi()
DashboardRetranslate == << Ev("dashboard", "retranslateUi", << >>) >> \o ControlRetranslate

\* a retranslateUi that emits language_changed before it retranslates the dashboard
AppRetranslateEmitsFirst ==
    << Ev("app", "retranslateUi", << >>) >>
    \o AppSignal("language_changed", << >>) \o DashboardRetranslate

\* BasicDashboardAppWidget.retranslateUi
AppRetranslate ==
    << Ev("app", "retranslateUi", << >>) >>
    \o DashboardRetranslate \o AppSignal("language_changed", << >>)

EventTypes == {"LanguageChange", "FontChange"}

\* ControlButtonsWidget.changeEvent(event)
ControlChangeEvent(type) == IF type = "LanguageChange" THEN ControlRetranslate ELSE << >>

\* DashboardWidget.changeEvent(event); Qt then hands a LanguageChange on to the
\* children of the widget
DashboardChangeEvent(type) ==
    IF type = "LanguageChange"
    THEN DashboardRetranslate \o ControlChangeEvent(type)
    ELSE << >>

\* BasicDashboardAppWidget.changeEvent(event); Qt then hands a LanguageChange on
\* to the children of the widget
AppChangeEvent(type) ==
    IF type = "LanguageChange"
    THEN AppRetranslate \o DashboardChangeEvent(type)
    ELSE << >>

----------------------------------------------------------------------------
(* ConfigurableWizard *)

\* the buttons _customize_buttons replaces, and the one line 247 connects
WizardRoles == {"back", "next", "cancel", "finish"}

\* the button QWizard creates for a role the first time button(role) is asked for
DefaultButton(role) == << "QPushButton", role >>

\* MaterialButton(btn.text()): a new button object
NewMaterialButton(role) == << "MaterialButton", role >>

\* _customize_buttons: setButton(role, MaterialButton(...)) for the four roles;
\* QWizard deletes the button it had for the role and shows the new one
CustomizeButtons(buttons) ==
    [ role \in DOMAIN buttons |->
        IF role \in WizardRoles THEN NewMaterialButton(role) ELSE buttons[role] ]

\* the buttons the wizard shows after __init__
ShownButtons(use_material_buttons) ==
    IF use_material_buttons
    THEN CustomizeButtons([ role \in WizardRoles |-> DefaultButton(role) ])
    ELSE [ role \in WizardRoles |-> DefaultButton(role) ]

\* line 247: the button whose clicked is connected to _on_finish; a connection
\* lives as long as the button it was made on
OnFinishSenders(use_material_buttons) ==
    { DefaultButton("finish") }
    \cap { ShownButtons(use_material_buttons)[role] : role \in WizardRoles }

\* _on_finish: "if self.on_finish_callback: self.on_finish_callback(self)"
OnFinish(has_callback) ==
    IF has_callback THEN << Ev("on_finish_callback", "call", << "wizard" >>) >> ELSE << >>

\* no ConfigurableWizard has been constructed
NoWizard == [status |-> "absent"]

\* ConfigurableWizard(title, pages, on_finish_callback=..., use_material_buttons=...)
WizardBuilt(n, has_callback, use_material_buttons) ==
    [status |-> "built", pages |-> n, callback |-> has_callback,
     use_material_buttons |-> use_material_buttons,
     buttons |-> ShownButtons(use_material_buttons),
     on_finish |-> OnFinishSenders(use_material_buttons),
     page |-> 1, visible |-> FALSE, shows |-> 0]

----------------------------------------------------------------------------
(* DashboardLayoutManager._create_action_grid *)

\* Optional[int]: the empty tuple for None, << n >> for n
Some(n) == << n >>

\* the cells of a block of row_span x col_span cells with top-left cell (r, c)
BlockCells(r, c, row_span, col_span) ==
    { << r + dr, c + dc >> : dr \in 0..(row_span - 1), dc \in 0..(col_span - 1) }

InGrid(cell, rows, cols) == 0 <= cell[1] /\ cell[1] < rows /\ 0 <= cell[2] /\ cell[2] < cols

\* mark_occupied(r, c, row_span, col_span)
MarkOccupied(occupied, r, c, row_span, col_span, rows, cols) ==
    occupied \cup { cell \in BlockCells(r, c, row_span, col_span) : InGrid(cell, rows, cols) }

\* "if btn_row is not None and btn_col is not None"
IsExplicit(entry) == entry.row # << >> /\ entry.col # << >>

\* grid.addWidget(widget, r, c, row_span, col_span); idx is the place of the
\* button in action_buttons, 0 for a placeholder
Placed(kind, idx, r, c, row_span, col_span) ==
    [kind |-> kind, idx |-> idx, r |-> r, c |-> c, row_span |-> row_span, col_span |-> col_span]

\* pass 1 from entry k on: g holds the widgets added, the occupied cells and the
\* auto queue so far
RECURSIVE PlaceExplicit(_, _, _, _, _)
PlaceExplicit(action_buttons, k, g, rows, cols) ==
    IF k > Len(action_buttons) THEN g
    ELSE LET entry == action_buttons[k]
         IN  IF IsExplicit(entry)
             THEN PlaceExplicit(action_buttons, k + 1,
                    [g EXCEPT !.widgets = Append(@, Placed("button", k, entry.row[1], entry.col[1],
                                                           entry.row_span, entry.col_span)),
                              !.occupied = MarkOccupied(@, entry.row[1], entry.col[1],
                                                        entry.row_span, entry.col_span,
                                                        rows, cols)],
                    rows, cols)
             ELSE PlaceExplicit(action_buttons, k + 1,
                    [g EXCEPT !.auto_queue = Append(@, [idx |-> k, row_span |-> entry.row_span,
                                                        col_span |-> entry.col_span])],
                    rows, cols)

\* the test find_free_cell makes for the cell (r, c)
CanFit(r, c, row_span, col_span, occupied, rows, cols) ==
    /\ << r, c >> \notin occupied
    /\ \A cell \in BlockCells(r, c, row_span, col_span) :
         InGrid(cell, rows, cols) /\ cell \notin occupied

\* (r1, c1) comes before (r2, c2) in "for r in range(rows): for c in range(cols)"
RowMajorBefore(a, b) == a[1] < b[1] \/ (a[1] = b[1] /\ a[2] <= b[2])

\* find_free_cell(row_span, col_span): the cell in a one-element tuple, the empty
\* tuple for None
FindFreeCell(row_span, col_span, occupied, rows, cols) ==
    LET fits == { cell \in (0..(rows - 1)) \X (0..(cols - 1)) :
                    CanFit(cell[1], cell[2], row_span, col_span, occupied, rows, cols) }
    IN  IF fits = {} THEN << >>
        ELSE << CHOOSE cell \in fits : \A other \in fits : RowMajorBefore(cell, other) >>

\* pass 2 from queue entry k on
RECURSIVE PlaceAuto(_, _, _, _)
PlaceAuto(k, g, rows, cols) ==
    IF k > Len(g.auto_queue) THEN g
    ELSE LET q    == g.auto_queue[k]
             cell == FindFreeCell(q.row_span, q.col_span, g.occupied, rows, cols)
         IN  IF cell # << >>
             THEN PlaceAuto(k + 1,
                    [g EXCEPT !.widgets = Append(@, Placed("button", q.idx, cell[1][1], cell[1][2],
                                                           q.row_span, q.col_span)),
                              !.occupied = MarkOccupied(@, cell[1][1], cell[1][2],
                                                        q.row_span, q.col_span, rows, cols)],
                    rows, cols)
             ELSE PlaceAuto(k + 1, g, rows, cols)

\* pass 3 from cell number k (row-major, 0-based) on
RECURSIVE PlacePlaceholders(_, _, _, _)
PlacePlaceholders(k, g, rows, cols) ==
    IF k >= rows * cols THEN g
    ELSE LET cell == << k \div cols, k % cols >>
         IN  IF cell \notin g.occupied
             THEN PlacePlaceholders(k + 1,
                    [g EXCEPT !.widgets = Append(@, Placed("placeholder", 0, cell[1], cell[2], 1, 1)),
                              !.occupied = @ \cup {cell}],
                    rows, cols)
             ELSE PlacePlaceholders(k + 1, g, rows, cols)

\* _create_action_grid(action_buttons): the widgets it adds to the grid
CreateActionGridResult(action_buttons, rows, cols, show_placeholders) ==
    LET empty  == [widgets |-> << >>, occupied |-> {}, auto_queue |-> << >>]
        placed == PlaceAuto(1, PlaceExplicit(action_buttons, 1, empty, rows, cols), rows, cols)
    IN  IF show_placeholders THEN PlacePlaceholders(0, placed, rows, cols) ELSE placed

\* _create_action_grid has not been called
NoGrid == [status |-> "absent"]

\* the entries of action_buttons: row and col None or inside a 2 x 2 grid,
\* spans of one or two cells
ActionButtonEntries ==
    [row : {<< >>, Some(0), Some(1)}, col : {<< >>, Some(0), Some(1)},
     row_span : 1..2, col_span : 1..2]

----------------------------------------------------------------------------
(* State after construction *)

\* the image load_placeholder_image builds or reads
Placeholder == "placeholder"

\* frame.copy(): a new image with the content of frame and nothing drawn on it
FrameCopy(frame) == [base |-> frame, lines |-> << >>]

\* a tick that draws over what the displayed frame already shows
DrawOnPrevious(canvas, lines) ==
    [base |-> canvas.base, lines |-> current_frame.lines \o lines]

\* the cv2.line calls of a tick, made on the copy
DrawOn(canvas, lines) == [base |-> canvas.base, lines |-> canvas.lines \o lines]

\* set_image() called without a message
NoMessage == [type |-> "None", keys |-> {}, image |-> "none"]

\* the messages set_image is called with: None, something that is not a dict,
\* a dict without "image", and dicts whose "image" is None, an image, or an
\* object cv2.resize raises on
Messages ==
    { NoMessage,
      [type |-> "str", keys |-> {}, image |-> "none"],
      [type |-> "dict", keys |-> {}, image |-> "none"],
      [type |-> "dict", keys |-> {"image"}, image |-> "none"],
      [type |-> "dict", keys |-> {"image"}, image |-> "frame"],
      [type |-> "dict", keys |-> {"image"}, image |-> "broken"] }

ProdIdle ==
    [pc |-> "idle", position |-> None, tmp |-> None, start_pos |-> None,
     end_pos |-> None, i |-> 0, failed |-> FALSE]

\* caught: the exception the last tick ran into and swallowed, "none" otherwise
UiIdle == [pc |-> "idle", caught |-> "none"]

\* the manager as an operation finds it, with the history so far: breaks counts
\* the break_trajectory calls since the last update_position, starts the
\* update_position calls since the last emptying that found no previous position
ManagerState ==
    [points |-> trajectory_points, current |-> current_position,
     last |-> last_position, pending |-> trajectory_break_pending,
     histLen |-> Len(hist), breaks |-> call.breaks, starts |-> call.starts,
     base |-> base_frame, frame |-> current_frame]

\* no operation has been called yet
NoCall ==
    [op |-> "init", position |-> None, message |-> NoMessage, breaks |-> 0, starts |-> 0,
     before |-> [points |-> << >>, current |-> None, last |-> None, pending |-> FALSE,
                 histLen |-> 0, breaks |-> 0, starts |-> 0, base |-> Placeholder,
                 frame |-> FrameCopy(Placeholder)]]

\* no BasicDashboardAppWidget has been constructed
NoApp == [status |-> "absent", dashboard |-> "absent"]

\* the buttons as init_ui builds them under the translator of lang
BuiltEnabled == [ b \in Buttons |-> CreateButtonEnabled ]

BuiltText(lang) == [ b \in Buttons |-> Tr(lang, DefaultText(b)) ]

\* no operation has been called on a widget built under the translator of lang
NoOp(lang) ==
    [name |-> "init", arg |-> << >>,
     before |-> [enabled |-> BuiltEnabled, text |-> BuiltText(lang)]]

\* the widgets around the trajectory widget, left alone
WidgetsIdle ==
    /\ btn_enabled = BuiltEnabled
    /\ btn_text = BuiltText("en")
    /\ language = "en"
    /\ app = NoApp
    /\ cards = EmptyDict
    /\ wizard = NoWizard
    /\ grid = NoGrid
    /\ lastSet = [ setter \in Setters |-> << >> ]
    /\ trace = << >>
    /\ widgetOp = NoOp("en")

\* the trajectory widget and its manager as their constructors leave them
TrajectoryIdle ==
    /\ trajectory_points = << >>
    /\ current_position = None
    /\ last_position = None
    /\ trajectory_break_pending = FALSE
    /\ lock = "free"
    /\ drawing_enabled = FALSE
    /\ current_frame = FrameCopy(Placeholder)
    /\ base_frame = Placeholder
    /\ trajectory_points_copy = ListCopy(<< >>)
    /\ prod = ProdIdle
    /\ ui = UiIdle
    /\ nUpdates = 0
    /\ hist = << >>
    /\ inputs = << >>
    /\ call = NoCall

\* TrajectoryManager.__init__ and RobotTrajectoryWidget.__init__
Init ==
    /\ TrajectoryIdle
    /\ WidgetsIdle

\* the record of an operation that has just completed
Called(op, position, breaks, starts) ==
    [op |-> op, position |-> position, message |-> NoMessage, breaks |-> breaks,
     starts |-> starts,
     before |-> ManagerState]

\* no update_position since construction or the last emptying, or a
\* break_trajectory since the last update_position
NoPreviousPosition(m) == m.histLen = 0 \/ m.breaks > 0

----------------------------------------------------------------------------
(* TrajectoryManager, one call at a time *)

\* update_position without its test of trajectory_break_pending
NextLastPositionIgnoresBreak(pending, current) == current

\* update_position without its else branch: last_position keeps its old value
NextLastPositionKeepsOld(pending, current) == IF pending THEN None ELSE last_position

\* lines 104-108: the value update_position leaves in last_position
NextLastPosition(pending, current) == IF pending THEN None ELSE current

\* line 116: is_break_start = self.last_position is None
IsBreakStart(last) == last = None

\* line 117: the sample of the branch that does not interpolate
PlainSample(position, current_time, last) ==
    << position[1], position[2], current_time, IsBreakStart(last) >>

\* line 112: the branch update_position takes
Interpolates(last) == last # None /\ interpolate_motion

\* the samples one update_position(position) appends
NewSamples(last, position, current_time) ==
    IF Interpolates(last)
    THEN InterpolatedSamples(last, position, current_time)
    ELSE << PlainSample(position, current_time, last) >>

\* update_position(position), the whole call
UpdatePositionCall(position) ==
    LET last == NextLastPosition(trajectory_break_pending, current_position)
        new  == NewSamples(last, position, nUpdates + 1)
    IN  /\ last_position' = last
        /\ trajectory_break_pending' = FALSE
        /\ current_position' = position
        /\ trajectory_points' = DequeExtend(trajectory_points, new)
        /\ hist' = hist \o new
        /\ nUpdates' = nUpdates + 1
        /\ inputs' = Append(inputs, position)
        /\ call' = Called("update_position", position, 0,
                           call.starts + (IF NoPreviousPosition(ManagerState) THEN 1 ELSE 0))
        /\ UNCHANGED <<guiVars, base_frame, lock, drawing_enabled, current_frame, trajectory_points_copy,
                       prod, ui>>

UpdatePosition ==
    /\ nUpdates < MaxUpdates
    /\ \E position \in Positions : UpdatePositionCall(position)

\* a break_trajectory that forgets the previous position at once
BreakTrajectoryImmediate ==
    /\ call.breaks < MaxBreaks
    /\ trajectory_break_pending' = TRUE
    /\ last_position' = None
    /\ current_position' = None
    /\ call' = Called("break_trajectory", None, call.breaks + 1, call.starts)
    /\ UNCHANGED <<guiVars, base_frame, trajectory_points, lock, drawing_enabled, current_frame,
                   trajectory_points_copy, prod, ui, nUpdates, hist, inputs>>

\* break_trajectory()
BreakTrajectory ==
    /\ call.breaks < MaxBreaks
    /\ trajectory_break_pending' = TRUE
    /\ call' = Called("break_trajectory", None, call.breaks + 1, call.starts)
    /\ UNCHANGED <<guiVars, base_frame, trajectory_points, current_position, last_position, lock,
                   drawing_enabled, current_frame, trajectory_points_copy, prod, ui,
                   nUpdates, hist, inputs>>

\* the body of clear_trail
ClearedPoints(points) == << >>

\* a clear_trail that empties the buffer and leaves the positions
ClearTrailKeepsPositions ==
    /\ trajectory_points' = ClearedPoints(trajectory_points)
    /\ hist' = << >>
    /\ UNCHANGED <<current_position, last_position>>

ClearTrailEffect ==
    /\ trajectory_points' = ClearedPoints(trajectory_points)
    /\ current_position' = None
    /\ last_position' = None
    /\ hist' = << >>

\* clear_trail()
ClearTrail ==
    /\ ClearTrailEffect
    /\ call' = Called("clear_trail", None, call.breaks, 0)
    /\ UNCHANGED <<guiVars, base_frame, trajectory_break_pending, lock, drawing_enabled, current_frame,
                   trajectory_points_copy, prod, ui, nUpdates, inputs>>

\* get_trajectory_copy()
GetTrajectoryCopy ==
    /\ trajectory_points_copy' = ListCopy(trajectory_points)
    /\ call' = Called("get_trajectory_copy", None, call.breaks, call.starts)
    /\ UNCHANGED <<guiVars, base_frame, trajectory_points, current_position, last_position,
                   trajectory_break_pending, lock, drawing_enabled, current_frame,
                   prod, ui, nUpdates, hist, inputs>>

----------------------------------------------------------------------------
(* RobotTrajectoryWidget, one call at a time *)

\* lines 381-386: what update_display draws on the fresh copy of the base frame
DrawnLines(enabled, points) ==
    IF enabled /\ points # << >> THEN DrawSmoothTrail(points) ELSE << >>

\* lines 381-386: the exception the try block of update_display runs into
DrawRaised(enabled, points) ==
    IF enabled /\ points # << >> THEN DrawSmoothTrailRaises(points) ELSE "none"

\* line 385: except (IndexError, ValueError)
TickCatches == {"IndexError", "ValueError"}

\* update_display(): the timer's tick
UpdateDisplay ==
    /\ trajectory_points_copy' = ListCopy(trajectory_points)
    /\ current_frame' = DrawOn(FrameCopy(base_frame),
                                DrawnLines(drawing_enabled, trajectory_points))
    /\ call' = Called("update_display", None, call.breaks, call.starts)
    /\ UNCHANGED <<guiVars, base_frame, trajectory_points, current_position, last_position,
                   trajectory_break_pending, lock, drawing_enabled, prod, ui,
                   nUpdates, hist, inputs>>

\* enable_drawing()
EnableDrawing ==
    /\ drawing_enabled' = TRUE
    /\ call' = Called("enable_drawing", None, call.breaks, call.starts)
    /\ UNCHANGED <<guiVars, base_frame, trajectory_points, current_position, last_position,
                   trajectory_break_pending, lock, current_frame,
                   trajectory_points_copy, prod, ui, nUpdates, hist, inputs>>

\* disable_drawing()
DisableDrawing ==
    /\ drawing_enabled' = FALSE
    /\ ClearTrailEffect
    /\ call' = Called("disable_drawing", None, call.breaks, 0)
    /\ UNCHANGED <<guiVars, base_frame, trajectory_break_pending, lock, current_frame,
                   trajectory_points_copy, prod, ui, nUpdates, inputs>>

\* line 350: the messages set_image returns on at once
Ignored(message) ==
    message.type = "None" \/ message.type # "dict" \/ "image" \notin message.keys

\* a set_image that clears the trail for every message it does not ignore
InstallsOrResets(message) == ~Ignored(message)

\* lines 356-358: cv2.resize and frame.copy() succeed
Installs(message) == ~Ignored(message) /\ message.image = "frame"

\* set_image(message)
SetImage ==
    \E message \in Messages :
      /\ IF Ignored(message)
         THEN UNCHANGED <<base_frame, current_frame>>
         ELSE IF Installs(message)
         THEN base_frame' = message.image /\ UNCHANGED current_frame
         ELSE base_frame' = Placeholder /\ current_frame' = FrameCopy(Placeholder)
      /\ IF Installs(message)
         THEN ClearTrailEffect
         ELSE UNCHANGED <<trajectory_points, current_position, last_position, hist>>
      /\ call' = [Called("set_image", None, call.breaks,
                         IF Installs(message) THEN 0 ELSE call.starts)
                    EXCEPT !.message = message]
      /\ UNCHANGED <<guiVars, trajectory_break_pending, lock, drawing_enabled,
                     trajectory_points_copy, prod, ui, nUpdates, inputs>>

Next ==
    \/ UpdatePosition
    \/ BreakTrajectory
    \/ ClearTrail
    \/ GetTrajectoryCopy
    \/ UpdateDisplay
    \/ EnableDrawing
    \/ DisableDrawing

Spec == Init /\ [][Next]_vars

\* the widget as the dashboard drives it: frames, points, the drawing switch
\* and the timer's tick
NextImage ==
    \/ SetImage
    \/ UpdatePosition
    \/ UpdateDisplay
    \/ EnableDrawing
    \/ DisableDrawing

SpecImage == Init /\ [][NextImage]_vars

----------------------------------------------------------------------------
(* The producer thread: update_position, statement by statement *)

Tm == <<trajectory_points, current_position, last_position, trajectory_break_pending>>

Widget == <<drawing_enabled, current_frame, trajectory_points_copy>>

\* a lock that excludes nobody
LockIgnored(l) == TRUE

\* "with self._lock" is entered only while nobody holds the lock
LockFree(l) == l = "free"

\* the call starts: update_position(position)
P_Call ==
    /\ prod.pc = "idle"
    /\ nUpdates < MaxConcUpdates
    /\ \E position \in ConcPositions :
         /\ prod' = [prod EXCEPT !.pc = "test_pending", !.position = position]
         /\ inputs' = Append(inputs, position)
    /\ nUpdates' = nUpdates + 1
    /\ UNCHANGED <<guiVars, base_frame, Tm, lock, Widget, ui, hist, call>>

\* line 104: if self.trajectory_break_pending
P_TestPending ==
    /\ prod.pc = "test_pending"
    /\ prod' = [prod EXCEPT !.pc = IF trajectory_break_pending
                                   THEN "set_last_none" ELSE "read_current"]
    /\ UNCHANGED <<guiVars, base_frame, Tm, lock, Widget, ui, nUpdates, hist, inputs, call>>

\* line 105: self.last_position = None
P_SetLastNone ==
    /\ prod.pc = "set_last_none"
    /\ last_position' = None
    /\ prod' = [prod EXCEPT !.pc = "clear_pending"]
    /\ UNCHANGED <<guiVars, base_frame, trajectory_points, current_position, trajectory_break_pending,
                   lock, Widget, ui, nUpdates, hist, inputs, call>>

\* line 106: self.trajectory_break_pending = False
P_ClearPending ==
    /\ prod.pc = "clear_pending"
    /\ trajectory_break_pending' = FALSE
    /\ prod' = [prod EXCEPT !.pc = "set_current"]
    /\ UNCHANGED <<guiVars, base_frame, trajectory_points, current_position, last_position,
                   lock, Widget, ui, nUpdates, hist, inputs, call>>

\* line 108, right-hand side: load self.current_position
P_ReadCurrent ==
    /\ prod.pc = "read_current"
    /\ prod' = [prod EXCEPT !.pc = "set_last", !.tmp = current_position]
    /\ UNCHANGED <<guiVars, base_frame, Tm, lock, Widget, ui, nUpdates, hist, inputs, call>>

\* line 108, left-hand side: store self.last_position
P_SetLast ==
    /\ prod.pc = "set_last"
    /\ last_position' = prod.tmp
    /\ prod' = [prod EXCEPT !.pc = "set_current", !.tmp = None]
    /\ UNCHANGED <<guiVars, base_frame, trajectory_points, current_position, trajectory_break_pending,
                   lock, Widget, ui, nUpdates, hist, inputs, call>>

\* line 110: self.current_position = position
P_SetCurrent ==
    /\ prod.pc = "set_current"
    /\ current_position' = prod.position
    /\ prod' = [prod EXCEPT !.pc = "test_last"]
    /\ UNCHANGED <<guiVars, base_frame, trajectory_points, last_position, trajectory_break_pending,
                   lock, Widget, ui, nUpdates, hist, inputs, call>>

\* line 112: if self.last_position is not None and self.interpolate_motion
P_TestLast ==
    /\ prod.pc = "test_last"
    /\ prod' = [prod EXCEPT !.pc = IF Interpolates(last_position)
                                   THEN "arg_start" ELSE "plain_lock"]
    /\ UNCHANGED <<guiVars, base_frame, Tm, lock, Widget, ui, nUpdates, hist, inputs, call>>

\* line 113, first argument: load self.last_position
P_ArgStart ==
    /\ prod.pc = "arg_start"
    /\ prod' = [prod EXCEPT !.pc = "arg_end", !.start_pos = last_position]
    /\ UNCHANGED <<guiVars, base_frame, Tm, lock, Widget, ui, nUpdates, hist, inputs, call>>

\* line 113, second argument: load self.current_position
P_ArgEnd ==
    /\ prod.pc = "arg_end"
    /\ prod' = [prod EXCEPT !.pc = "unpack", !.end_pos = current_position]
    /\ UNCHANGED <<guiVars, base_frame, Tm, lock, Widget, ui, nUpdates, hist, inputs, call>>

\* lines 88-92: unpacking None raises TypeError and the call ends there
P_Unpack ==
    /\ prod.pc = "unpack"
    /\ prod' = IF prod.start_pos = None \/ prod.end_pos = None
               THEN [ProdIdle EXCEPT !.failed = TRUE]
               ELSE [prod EXCEPT !.pc = "interp_lock"]
    /\ UNCHANGED <<guiVars, base_frame, Tm, lock, Widget, ui, nUpdates, hist, inputs, call>>

\* line 94-96: enter the lock, test the distance, start the loop
P_InterpLock ==
    /\ prod.pc = "interp_lock"
    /\ LockFree(lock)
    /\ lock' = "producer"
    /\ prod' = [prod EXCEPT !.pc = IF InterpCount(prod.start_pos, prod.end_pos) > 0
                                   THEN "interp_loop" ELSE "append_end",
                            !.i = 1]
    /\ UNCHANGED <<guiVars, base_frame, Tm, Widget, ui, nUpdates, hist, inputs, call>>

\* lines 97-100: one turn of the loop
P_InterpAppend ==
    /\ prod.pc = "interp_loop"
    /\ LET s == InterpSample(prod.start_pos, prod.end_pos, prod.i, nUpdates)
       IN  /\ trajectory_points' = DequeAppend(trajectory_points, s)
           /\ hist' = Append(hist, s)
    /\ prod' = [prod EXCEPT !.pc = IF prod.i >= InterpCount(prod.start_pos, prod.end_pos)
                                   THEN "append_end" ELSE "interp_loop",
                            !.i = prod.i + 1]
    /\ UNCHANGED <<guiVars, base_frame, current_position, last_position, trajectory_break_pending,
                   lock, Widget, ui, nUpdates, inputs, call>>

\* line 101 and the end of the locked block
P_AppendEnd ==
    /\ prod.pc = "append_end"
    /\ LET s == EndSample(prod.end_pos, nUpdates)
       IN  /\ trajectory_points' = DequeAppend(trajectory_points, s)
           /\ hist' = Append(hist, s)
    /\ lock' = "free"
    /\ prod' = [ProdIdle EXCEPT !.failed = prod.failed]
    /\ UNCHANGED <<guiVars, base_frame, current_position, last_position, trajectory_break_pending,
                   Widget, ui, nUpdates, inputs, call>>

\* line 115: enter the lock
P_PlainLock ==
    /\ prod.pc = "plain_lock"
    /\ LockFree(lock)
    /\ lock' = "producer"
    /\ prod' = [prod EXCEPT !.pc = "plain_append"]
    /\ UNCHANGED <<guiVars, base_frame, Tm, Widget, ui, nUpdates, hist, inputs, call>>

\* lines 116-117 and the end of the locked block
P_PlainAppend ==
    /\ prod.pc = "plain_append"
    /\ LET s == PlainSample(prod.position, nUpdates, last_position)
       IN  /\ trajectory_points' = DequeAppend(trajectory_points, s)
           /\ hist' = Append(hist, s)
    /\ lock' = "free"
    /\ prod' = [ProdIdle EXCEPT !.failed = prod.failed]
    /\ UNCHANGED <<guiVars, base_frame, current_position, last_position, trajectory_break_pending,
                   Widget, ui, nUpdates, inputs, call>>

Producer ==
    \/ P_Call
    \/ P_TestPending
    \/ P_SetLastNone
    \/ P_ClearPending
    \/ P_ReadCurrent
    \/ P_SetLast
    \/ P_SetCurrent
    \/ P_TestLast
    \/ P_ArgStart
    \/ P_ArgEnd
    \/ P_Unpack
    \/ P_InterpLock
    \/ P_InterpAppend
    \/ P_AppendEnd
    \/ P_PlainLock
    \/ P_PlainAppend

----------------------------------------------------------------------------
(* The UI thread: clear_trail, the display tick, the drawing switch *)

\* line 123: enter the lock
U_ClearLock ==
    /\ ui.pc \in {"idle", "disable"}
    /\ LockFree(lock)
    /\ lock' = "ui"
    /\ ui' = [ui EXCEPT !.pc = "clear_points"]
    /\ UNCHANGED <<guiVars, base_frame, Tm, Widget, prod, nUpdates, hist, inputs, call>>

\* line 124: self.trajectory_points.clear()
U_ClearPoints ==
    /\ ui.pc = "clear_points"
    /\ trajectory_points' = ClearedPoints(trajectory_points)
    /\ hist' = << >>
    /\ ui' = [ui EXCEPT !.pc = "clear_current"]
    /\ UNCHANGED <<guiVars, base_frame, current_position, last_position, trajectory_break_pending,
                   lock, Widget, prod, nUpdates, inputs, call>>

\* line 125: self.current_position = None
U_ClearCurrent ==
    /\ ui.pc = "clear_current"
    /\ current_position' = None
    /\ ui' = [ui EXCEPT !.pc = "clear_last"]
    /\ UNCHANGED <<guiVars, base_frame, trajectory_points, last_position, trajectory_break_pending,
                   lock, Widget, prod, nUpdates, hist, inputs, call>>

\* line 126 and the end of the locked block
U_ClearLast ==
    /\ ui.pc = "clear_last"
    /\ last_position' = None
    /\ lock' = "free"
    /\ ui' = [ui EXCEPT !.pc = "idle"]
    /\ UNCHANGED <<guiVars, base_frame, trajectory_points, current_position, trajectory_break_pending,
                   Widget, prod, nUpdates, hist, inputs, call>>

\* lines 378-379: copy the base frame, take the list under the lock
U_TickCopy ==
    /\ ui.pc = "idle"
    /\ LockFree(lock)
    /\ current_frame' = FrameCopy(base_frame)
    /\ trajectory_points_copy' = ListCopy(trajectory_points)
    /\ ui' = [ui EXCEPT !.pc = "draw"]
    /\ UNCHANGED <<guiVars, base_frame, Tm, lock, drawing_enabled, prod,
                   nUpdates, hist, inputs, call>>

\* lines 381-388: draw on the copy, outside the lock
U_TickDraw ==
    /\ ui.pc = "draw"
    /\ current_frame' = DrawOn(current_frame,
                                DrawnLines(drawing_enabled, View(trajectory_points_copy)))
    /\ DrawRaised(drawing_enabled, View(trajectory_points_copy)) \in TickCatches \cup {"none"}
    /\ ui' = [pc |-> "idle",
              caught |-> DrawRaised(drawing_enabled, View(trajectory_points_copy))]
    /\ UNCHANGED <<guiVars, base_frame, Tm, lock, drawing_enabled, trajectory_points_copy, prod,
                   nUpdates, hist, inputs, call>>

\* enable_drawing()
U_EnableDrawing ==
    /\ ui.pc = "idle"
    /\ ~drawing_enabled
    /\ drawing_enabled' = TRUE
    /\ UNCHANGED <<guiVars, base_frame, Tm, lock, current_frame, trajectory_points_copy, prod, ui,
                   nUpdates, hist, inputs, call>>

\* line 367: disable_drawing() up to its call of clear_trail
U_DisableDrawing ==
    /\ ui.pc = "idle"
    /\ drawing_enabled' = FALSE
    /\ ui' = [ui EXCEPT !.pc = "disable"]
    /\ UNCHANGED <<guiVars, base_frame, Tm, lock, current_frame, trajectory_points_copy, prod,
                   nUpdates, hist, inputs, call>>

\* break_trajectory(), from whichever thread the adapter runs on
C_BreakTrajectory ==
    /\ ~trajectory_break_pending
    /\ trajectory_break_pending' = TRUE
    /\ UNCHANGED <<guiVars, base_frame, trajectory_points, current_position, last_position, lock,
                   Widget, prod, ui, nUpdates, hist, inputs, call>>

UiThread ==
    \/ U_ClearLock
    \/ U_ClearPoints
    \/ U_ClearCurrent
    \/ U_ClearLast
    \/ U_TickCopy
    \/ U_TickDraw
    \/ U_EnableDrawing
    \/ U_DisableDrawing

NextConc == Producer \/ UiThread \/ C_BreakTrajectory

SpecConc == Init /\ [][NextConc]_vars

----------------------------------------------------------------------------
(* add_interpolated_points over a grid of positions *)

UpdatePositionOnGrid ==
    /\ nUpdates < 2
    /\ \E position \in GridPositions : UpdatePositionCall(position)

NextInterp == UpdatePositionOnGrid

SpecInterp == Init /\ [][NextInterp]_vars

----------------------------------------------------------------------------
(* draw_smooth_trail over lists of samples *)

\* a widget whose tick has taken some list of samples and has not drawn yet
InitDraw ==
    /\ trajectory_points = << >>
    /\ current_position = None
    /\ last_position = None
    /\ trajectory_break_pending = FALSE
    /\ lock = "free"
    /\ drawing_enabled = TRUE
    /\ current_frame = FrameCopy(Placeholder)
    /\ base_frame = Placeholder
    /\ \E n \in 0..MaxSnapshot :
         \E f \in [1..n -> SnapCoords \X BOOLEAN] :
           trajectory_points_copy = ListCopy(SnapshotList(f))
    /\ prod = ProdIdle
    /\ ui = [pc |-> "draw", caught |-> "none"]
    /\ nUpdates = 0
    /\ hist = << >>
    /\ inputs = << >>
    /\ call = NoCall
    /\ WidgetsIdle

NextDraw == U_TickDraw

SpecDraw == InitDraw /\ [][NextDraw]_vars

----------------------------------------------------------------------------
(* draw_smooth_trail over lists that may hold a NaN coordinate *)

InitFault ==
    /\ trajectory_points = << >>
    /\ current_position = None
    /\ last_position = None
    /\ trajectory_break_pending = FALSE
    /\ lock = "free"
    /\ drawing_enabled = TRUE
    /\ current_frame = FrameCopy(Placeholder)
    /\ base_frame = Placeholder
    /\ \E n \in 0..MaxFaultSnapshot :
         \E f \in [1..n -> FaultCoords \X BOOLEAN] :
           trajectory_points_copy = ListCopy(SnapshotList(f))
    /\ prod = ProdIdle
    /\ ui = [pc |-> "draw", caught |-> "none"]
    /\ nUpdates = 0
    /\ hist = << >>
    /\ inputs = << >>
    /\ call = NoCall
    /\ WidgetsIdle

SpecFault == InitFault /\ [][U_TickDraw]_vars

----------------------------------------------------------------------------
(* ControlButtonsWidget on its own, as ControlButtonsWidget() builds it *)

\* the record of an operation on a widget that has just completed
WidgetCalled(name, arg) ==
    [name |-> name, arg |-> arg, before |-> [enabled |-> btn_enabled, text |-> btn_text]]

\* the control buttons sit in a DashboardWidget
InDashboard == app.dashboard # "absent"

\* that DashboardWidget is the one setup_ui built and connected
Connected == app.dashboard = "own"

\* setter(value) for one of set_start_enabled, set_stop_enabled, set_pause_enabled
SetEnabledCall(setter, value) ==
    /\ btn_enabled' = [btn_enabled EXCEPT ![SetterTarget(setter)] = value]
    /\ lastSet' = [lastSet EXCEPT ![setter] = << value >>]
    /\ trace' = << >>
    /\ widgetOp' = WidgetCalled(setter, << value >>)
    /\ UNCHANGED <<trajectoryVars, btn_text, language, app, cards, wizard, grid>>

\* set_start_enabled(value), set_stop_enabled(value) or set_pause_enabled(value)
SetEnabled == \E setter \in Setters : \E value \in BOOLEAN : SetEnabledCall(setter, value)

\* set_pause_text(text) with the text of source under the current translator
SetPauseText ==
    \E source \in PauseTexts :
      /\ btn_text' = [btn_text EXCEPT !["pause"] = Tr(language, source)]
      /\ trace' = << >>
      /\ widgetOp' = WidgetCalled("set_pause_text", << source >>)
      /\ UNCHANGED <<trajectoryVars, btn_enabled, language, app, cards, wizard, grid,
                     lastSet>>

\* the user clicks one of the buttons
Click ==
    \E b \in Buttons :
      /\ trace' = ButtonClick(b, btn_enabled[b], InDashboard, Connected)
      /\ widgetOp' = WidgetCalled("click", << b >>)
      /\ UNCHANGED <<trajectoryVars, btn_enabled, btn_text, language, app, cards, wizard,
                     grid, lastSet>>

\* ControlButtonsWidget.retranslateUi()
RetranslateUi ==
    /\ btn_text' = Retranslated(btn_text, language)
    /\ trace' = ControlRetranslate
    /\ widgetOp' = WidgetCalled("retranslateUi", << >>)
    /\ UNCHANGED <<trajectoryVars, btn_enabled, language, app, cards, wizard, grid, lastSet>>

\* the texts after a change event of the given type
AfterChangeEvent(type, t, lang) == IF type = "LanguageChange" THEN Retranslated(t, lang) ELSE t

\* Qt delivers a change event to the ControlButtonsWidget
ChangeEvent ==
    \E type \in EventTypes :
      /\ btn_text' = AfterChangeEvent(type, btn_text, language)
      /\ trace' = ControlChangeEvent(type)
      /\ widgetOp' = WidgetCalled("changeEvent", << type >>)
      /\ UNCHANGED <<trajectoryVars, btn_enabled, language, app, cards, wizard, grid,
                     lastSet>>

\* the application installs the translator of another language; the
\* LanguageChange event it posts is delivered later
InstallTranslator ==
    \E lang \in Languages \ {language} :
      /\ language' = lang
      /\ trace' = << >>
      /\ widgetOp' = WidgetCalled("installTranslator", << lang >>)
      /\ UNCHANGED <<trajectoryVars, btn_enabled, btn_text, app, cards, wizard, grid,
                     lastSet>>

\* ControlButtonsWidget() built under the translator of some language
InitButtons ==
    /\ TrajectoryIdle
    /\ \E lang \in Languages :
         /\ language = lang
         /\ btn_text = BuiltText(lang)
         /\ widgetOp = NoOp(lang)
    /\ btn_enabled = BuiltEnabled
    /\ app = NoApp
    /\ cards = EmptyDict
    /\ wizard = NoWizard
    /\ grid = NoGrid
    /\ lastSet = [ setter \in Setters |-> << >> ]
    /\ trace = << >>

NextButtons ==
    \/ SetEnabled
    \/ SetPauseText
    \/ Click
    \/ RetranslateUi
    \/ ChangeEvent
    \/ InstallTranslator

SpecButtons == InitButtons /\ [][NextButtons]_vars

----------------------------------------------------------------------------
(* BasicDashboardAppWidget with its DashboardWidget *)

ActionIds == {"reset_errors", "home"}

\* the argument lists a signal of the dashboard is emitted with
SignalArgs(sig) == IF sig = "action_requested" THEN { << aid >> : aid \in ActionIds } ELSE { << >> }

\* BasicDashboardAppWidget(**kwargs): the call binds or raises TypeError; __init__
\* hands over to AppWidget.__init__, which runs setup_ui: DashboardWidget() with
\* no cards and no action buttons, and the four connections
ConstructApp ==
    /\ app.status # "built"
    /\ \E kwargs \in KwargSets :
         /\ widgetOp' = WidgetCalled("construct", kwargs)
         /\ IF Binds(AppWidgetParams, kwargs)
            THEN /\ app' = [status |-> "built", dashboard |-> "own"]
                 /\ btn_enabled' = BuiltEnabled
                 /\ btn_text' = BuiltText(language)
                 /\ cards' = RegisterCards(EmptyDict, << >>)
                 /\ lastSet' = [ setter \in Setters |-> << >> ]
            ELSE /\ app' = [status |-> "TypeError", dashboard |-> "absent"]
                 /\ UNCHANGED <<btn_enabled, btn_text, cards, lastSet>>
    /\ trace' = << >>
    /\ UNCHANGED <<trajectoryVars, language, wizard, grid>>

\* self._dashboard is assigned a DashboardWidget(cards=cards_input), as the tests
\* of the setter proxies replace it; that one is not connected to the app widget
AssignDashboard ==
    /\ app.status = "built"
    /\ app.dashboard = "own"
    /\ \E n \in 0..MaxCards :
         \E cards_input \in [1..n -> CardWidgets \X CardIds] :
           /\ cards' = RegisterCards(EmptyDict, cards_input)
           /\ widgetOp' = WidgetCalled("assign_dashboard", cards_input)
    /\ app' = [app EXCEPT !.dashboard = "assigned"]
    /\ btn_enabled' = BuiltEnabled
    /\ btn_text' = BuiltText(language)
    /\ lastSet' = [ setter \in Setters |-> << >> ]
    /\ trace' = << >>
    /\ UNCHANGED <<trajectoryVars, language, wizard, grid>>

\* set_start_enabled, set_stop_enabled or set_pause_enabled of the app widget,
\* handed to the dashboard and from there to the control buttons
AppSetEnabled ==
    /\ app.status = "built"
    /\ SetEnabled

\* set_pause_text of the app widget
AppSetPauseText ==
    /\ app.status = "built"
    /\ SetPauseText

\* the user clicks one of the control buttons of the dashboard
AppClick ==
    /\ app.status = "built"
    /\ Click

\* the dashboard emits one of its signals (as the tests do, and as a click on an
\* action button does)
DashboardEmits ==
    /\ app.status = "built"
    /\ \E sig \in DashboardSignals :
         \E arg \in SignalArgs(sig) :
           /\ trace' = DashboardSignal(sig, arg, Connected)
           /\ widgetOp' = WidgetCalled("dashboard_emit", << sig >>)
    /\ UNCHANGED <<trajectoryVars, btn_enabled, btn_text, language, app, cards, wizard,
                   grid, lastSet>>

\* BasicDashboardAppWidget.retranslateUi()
AppRetranslateUi ==
    /\ app.status = "built"
    /\ btn_text' = Retranslated(btn_text, language)
    /\ trace' = AppRetranslate
    /\ widgetOp' = WidgetCalled("app_retranslateUi", << >>)
    /\ UNCHANGED <<trajectoryVars, btn_enabled, language, app, cards, wizard, grid, lastSet>>

\* Qt delivers a change event to the app widget
AppChangeEventDelivered ==
    /\ app.status = "built"
    /\ \E type \in EventTypes :
         /\ btn_text' = AfterChangeEvent(type, btn_text, language)
         /\ trace' = AppChangeEvent(type)
         /\ widgetOp' = WidgetCalled("app_changeEvent", << type >>)
    /\ UNCHANGED <<trajectoryVars, btn_enabled, language, app, cards, wizard, grid, lastSet>>

\* set_cell_weight, set_cell_state or set_cell_glue_type of the app widget
AppSetCellCall ==
    /\ app.status = "built"
    /\ \E kind \in CellSetters :
         \E card_id \in CardIds :
           \E v \in CellValues :
             /\ trace' = AppSetCell(kind, card_id, v, cards)
             /\ widgetOp' = WidgetCalled(kind, << card_id, v >>)
    /\ UNCHANGED <<trajectoryVars, btn_enabled, btn_text, language, app, cards, wizard,
                   grid, lastSet>>

NextApp ==
    \/ ConstructApp
    \/ AssignDashboard
    \/ AppSetEnabled
    \/ AppSetPauseText
    \/ AppClick
    \/ DashboardEmits
    \/ AppRetranslateUi
    \/ AppChangeEventDelivered
    \/ AppSetCellCall
    \/ InstallTranslator

\* no widget has been constructed yet
SpecApp == Init /\ [][NextApp]_vars

----------------------------------------------------------------------------
(* ConfigurableWizard: construction, paging, Finish *)

ConstructWizard ==
    /\ wizard.status = "absent"
    /\ \E n \in 1..MaxPages :
         \E has_callback \in BOOLEAN :
           \E use_material_buttons \in BOOLEAN :
             /\ wizard' = WizardBuilt(n, has_callback, use_material_buttons)
             /\ widgetOp' = WidgetCalled("construct_wizard", << n >>)
    /\ trace' = << >>
    /\ UNCHANGED <<trajectoryVars, btn_enabled, btn_text, language, app, cards, grid, lastSet>>

\* show() or exec(): the wizard opens on its first page
ShowWizard ==
    /\ wizard.status = "built"
    /\ ~wizard.visible
    /\ wizard.shows < MaxShows
    /\ wizard' = [wizard EXCEPT !.visible = TRUE, !.page = 1, !.shows = @ + 1]
    /\ trace' = << >>
    /\ widgetOp' = WidgetCalled("show", << >>)
    /\ UNCHANGED <<trajectoryVars, btn_enabled, btn_text, language, app, cards, grid, lastSet>>

\* a click on Next (step 1) or Back (step -1), where the page has that button
WizardTurnPage ==
    /\ wizard.status = "built"
    /\ wizard.visible
    /\ \E step \in {-1, 1} :
         /\ wizard.page + step \in 1..wizard.pages
         /\ wizard' = [wizard EXCEPT !.page = @ + step]
         /\ widgetOp' = WidgetCalled("turn_page", << step >>)
    /\ trace' = << >>
    /\ UNCHANGED <<trajectoryVars, btn_enabled, btn_text, language, app, cards, grid, lastSet>>

\* a click on Cancel closes the wizard
WizardCancel ==
    /\ wizard.status = "built"
    /\ wizard.visible
    /\ wizard' = [wizard EXCEPT !.visible = FALSE]
    /\ trace' = << >>
    /\ widgetOp' = WidgetCalled("click_cancel", << >>)
    /\ UNCHANGED <<trajectoryVars, btn_enabled, btn_text, language, app, cards, grid, lastSet>>

\* a click on the Finish button the wizard shows on its last page: the slots
\* connected to clicked of that button run, and QWizard closes the dialog
WizardFinish ==
    /\ wizard.status = "built"
    /\ wizard.visible
    /\ wizard.page = wizard.pages
    /\ trace' = (IF wizard.buttons["finish"] \in wizard.on_finish
                 THEN OnFinish(wizard.callback)
                 ELSE << >>)
    /\ wizard' = [wizard EXCEPT !.visible = FALSE]
    /\ widgetOp' = WidgetCalled("click_finish", << >>)
    /\ UNCHANGED <<trajectoryVars, btn_enabled, btn_text, language, app, cards, grid, lastSet>>

NextWizard ==
    \/ ConstructWizard
    \/ ShowWizard
    \/ WizardTurnPage
    \/ WizardCancel
    \/ WizardFinish

SpecWizard == Init /\ [][NextWizard]_vars

----------------------------------------------------------------------------
(* _create_action_grid over lists of action buttons *)

\* a layout manager about to build the action grid for some list of buttons
InitGrid ==
    /\ TrajectoryIdle
    /\ btn_enabled = BuiltEnabled
    /\ btn_text = BuiltText("en")
    /\ language = "en"
    /\ app = NoApp
    /\ cards = EmptyDict
    /\ wizard = NoWizard
    /\ \E rows \in 1..MaxGridSide :
         \E cols \in 1..MaxGridSide :
           \E show_placeholders \in BOOLEAN :
             \E n \in 0..MaxActionButtons :
               \E action_buttons \in [1..n -> ActionButtonEntries] :
                 grid = [status |-> "input", rows |-> rows, cols |-> cols,
                         show_placeholders |-> show_placeholders,
                         action_buttons |-> action_buttons, widgets |-> << >>]
    /\ lastSet = [ setter \in Setters |-> << >> ]
    /\ trace = << >>
    /\ widgetOp = NoOp("en")

\* _create_action_grid(action_buttons)
CreateActionGrid ==
    /\ grid.status = "input"
    /\ grid' = [grid EXCEPT
                  !.status = "built",
                  !.widgets = CreateActionGridResult(grid.action_buttons, grid.rows, grid.cols,
                                                     grid.show_placeholders).widgets]
    /\ trace' = << >>
    /\ widgetOp' = WidgetCalled("_create_action_grid", << >>)
    /\ UNCHANGED <<trajectoryVars, btn_enabled, btn_text, language, app, cards, wizard, lastSet>>

SpecGrid == InitGrid /\ [][CreateActionGrid]_vars

----------------------------------------------------------------------------
(* Properties *)

\* the last n elements of seq
LastN(seq, n) == SubSeq(seq, Len(seq) - n + 1, Len(seq))

\* the samples the operation recorded in call has appended
Appended == SubSeq(hist, call.before.histLen + 1, Len(hist))

XY(sample) == << sample[1], sample[2] >>

Updated == call.op = "update_position"

\* C1: under every interleaving of update_position, break_trajectory, clear_trail
\* and get_trajectory_copy the trail buffer holds at most trail_length samples
C1_LengthWithinCapacity == Len(trajectory_points) <= trail_length

\* the buffer is full and has evicted, while both threads are inside an operation
C1_Witness ==
    /\ Len(trajectory_points) = trail_length
    /\ Len(hist) > trail_length
    /\ prod.pc # "idle"
    /\ ui.pc # "idle"

\* C2: with k samples appended since the buffer was last empty, the buffer is the
\* last min(trail_length, k) of them in the order of appending: nothing is evicted
\* while k <= trail_length, and afterwards the length stays trail_length and the
\* oldest samples go first
C2_FifoEviction ==
    /\ trajectory_points = LastN(hist, Min(trail_length, Len(hist)))
    /\ Len(hist) <= trail_length => Len(trajectory_points) = Len(hist)
    /\ Len(hist) > trail_length => Len(trajectory_points) = trail_length

\* update_position calls alone have appended more samples than the buffer holds
C2_Witness ==
    /\ Updated
    /\ call.starts = 1
    /\ Len(hist) = Len(inputs) + 6
    /\ Len(hist) > trail_length
    /\ trajectory_points[1] = hist[Len(hist) - trail_length + 1]

\* C3: the sample update_position appends for its argument is tagged as a break
\* start exactly when the call is the first update_position since construction
\* or clear_trail, or the first since a break_trajectory; every other sample it
\* appends is tagged false, so the break starts in the buffer's history are as
\* many as those calls
C3_BreakStartTag ==
    /\ Updated =>
         /\ Appended # << >>
         /\ XY(Appended[Len(Appended)]) = call.position
         /\ Appended[Len(Appended)][4] = NoPreviousPosition(call.before)
         /\ \A k \in 1..(Len(Appended) - 1) : Appended[k][4] = FALSE
    /\ Cardinality({ k \in DOMAIN hist : hist[k][4] }) = call.starts

\* a break_trajectory after earlier updates, then an update: the second break start
C3_Witness ==
    /\ Updated
    /\ call.before.breaks = 1
    /\ call.before.current # None
    /\ call.starts = 2
    /\ Len(hist) > 2
    /\ hist[Len(hist)][4] = TRUE

\* C4: update_position(p) leaves current_position = p; last_position is unset when
\* a break was pending at the call, which it clears, and is otherwise the
\* current_position of before the call
C4_PositionFields ==
    Updated =>
      /\ current_position = call.position
      /\ last_position = (IF call.before.pending THEN None ELSE call.before.current)
      /\ trajectory_break_pending = FALSE

\* an update that moved a set current_position into last_position
C4_Witness ==
    /\ Updated
    /\ ~call.before.pending
    /\ call.before.current # None
    /\ last_position = call.before.current
    /\ last_position # current_position

\* C5: break_trajectory changes only the pending flag (buffer and both positions
\* stay, so a copy taken then holds no new sample), and the update_position that
\* follows any number of break_trajectory calls appends one sample, a break start
C5_DeferredBreak ==
    /\ call.op = "break_trajectory" =>
         /\ trajectory_points = call.before.points
         /\ current_position = call.before.current
         /\ last_position = call.before.last
         /\ Len(hist) = call.before.histLen
         /\ trajectory_break_pending
    /\ call.op = "get_trajectory_copy" =>
         View(trajectory_points_copy) = call.before.points
    /\ (Updated /\ call.before.breaks > 0) =>
         /\ Len(Appended) = 1
         /\ Appended[1][4] = TRUE

\* two break_trajectory calls after an update, then one update
C5_Witness ==
    /\ Updated
    /\ call.before.breaks = 2
    /\ call.before.current # None
    /\ call.before.points # << >>
    /\ Len(Appended) = 1
    /\ Appended[1][4] = TRUE

\* C6: an update_position(p) that finds a previous position q appends three
\* interpolated samples and then p when q and p are more than 5 apart, and p
\* alone when they are 5 apart or less; all of them tagged false
C6_InterpolationCount ==
    (Updated /\ call.before.current # None /\ ~call.before.pending) =>
      LET q  == call.before.current
          p  == call.position
          dx == p[1] - q[1]
          dy == p[2] - q[2]
      IN  /\ Len(Appended) = (IF dx * dx + dy * dy > 25 THEN 4 ELSE 1)
          /\ XY(Appended[Len(Appended)]) = p
          /\ \A k \in DOMAIN Appended : Appended[k][4] = FALSE

\* (12,0) -> (0,0) has interpolated, then (0,0) -> (3,4), exactly 5 apart, has not
C6_Witness ==
    /\ Updated
    /\ inputs = << <<12, 0>>, <<0, 0>>, <<3, 4>> >>
    /\ call.starts = 1
    /\ Len(hist) = 6
    /\ Len(Appended) = 1

\* n / 4 truncated toward zero is t
IsTrunc4(n, t) == IF n >= 0 THEN 4 * t <= n /\ n < 4 * t + 4
                            ELSE 4 * t - 4 < n /\ n <= 4 * t

Between(a, v, b) == (a <= v /\ v <= b) \/ (b <= v /\ v <= a)

\* C7: for q = (x0,y0) and p = (x1,y1) more than 5 apart the i-th interpolated
\* sample is (trunc(x0 + i(x1-x0)/4), trunc(y0 + i(y1-y0)/4)) and lies in the
\* bounding box of q and p; (0,0) -> (100,0) appends x = 25, 50, 75, 100; on a
\* horizontal move the four appended x go strictly toward the destination
C7_InterpolatedCoordinates ==
    (Updated /\ call.before.current # None
       /\ (call.position[1] - call.before.current[1]) * (call.position[1] - call.before.current[1])
          + (call.position[2] - call.before.current[2]) * (call.position[2] - call.before.current[2])
          > 25) =>
      LET q == call.before.current
          p == call.position
      IN  /\ Len(Appended) = 4
          /\ \A i \in 1..3 :
                /\ IsTrunc4(4 * q[1] + i * (p[1] - q[1]), Appended[i][1])
                /\ IsTrunc4(4 * q[2] + i * (p[2] - q[2]), Appended[i][2])
                /\ Between(q[1], Appended[i][1], p[1])
                /\ Between(q[2], Appended[i][2], p[2])
          /\ (q = <<0, 0>> /\ p = <<100, 0>>) =>
                << Appended[1][1], Appended[2][1], Appended[3][1], Appended[4][1] >>
                  = << 25, 50, 75, 100 >>
          /\ (q[2] = p[2] /\ p[1] > q[1]) =>
                \A i \in 1..3 : q[1] < Appended[1][1] /\ Appended[i][1] < Appended[i + 1][1]
          /\ (q[2] = p[2] /\ p[1] < q[1]) =>
                \A i \in 1..3 : q[1] > Appended[1][1] /\ Appended[i][1] > Appended[i + 1][1]

\* the move (0,0) -> (100,0) has been made
C7_Witness ==
    /\ Updated
    /\ call.before.current = <<0, 0>>
    /\ call.position = <<100, 0>>
    /\ Len(Appended) = 4

\* C8: after clear_trail the buffer, and so a copy of it, is empty and both
\* position fields are unset, whatever was called before
C8_ClearEmpties ==
    /\ call.op = "clear_trail" =>
         /\ trajectory_points = << >>
         /\ View(ListCopy(trajectory_points)) = << >>
         /\ current_position = None
         /\ last_position = None
    /\ (call.op = "get_trajectory_copy" /\ call.before.histLen = 0) =>
         View(trajectory_points_copy) = << >>

\* clear_trail has emptied a full buffer with both positions set and a break pending
C8_Witness ==
    /\ call.op = "clear_trail"
    /\ Len(call.before.points) = trail_length
    /\ call.before.current # None
    /\ call.before.last # None
    /\ call.before.pending
    /\ trajectory_points = << >>

\* the list the tick has drawn from
Snapshot == View(trajectory_points_copy)

\* the samples a drawn line depends on, as indices into the list
LineSources(line) == line.from1 \cup line.from2

\* C9: every line drawn, trail line or highlight, joins two smoothed points
\* computed from samples of one segment: no break start lies after one of the
\* samples the line depends on and at or before another
C9_NoLineAcrossBreak ==
    \A n \in DOMAIN current_frame.lines :
      LET src == LineSources(current_frame.lines[n])
      IN  /\ src # {}
          /\ src \subseteq DOMAIN Snapshot
          /\ \A b \in DOMAIN Snapshot :
               Snapshot[b][4] => ~(\E a \in src : a < b /\ \E c \in src : c >= b)

\* a break start inside the list, with lines drawn before it and after it
C9_Witness ==
    \E b \in DOMAIN Snapshot :
      /\ Snapshot[b][4]
      /\ \E n \in DOMAIN current_frame.lines :
           \A a \in LineSources(current_frame.lines[n]) : a < b
      /\ \E n \in DOMAIN current_frame.lines :
           /\ b \in LineSources(current_frame.lines[n])
           /\ \A a \in LineSources(current_frame.lines[n]) : a >= b

\* in the list the tick holds, the last sample of every update_position call
\* present is that call's argument
BatchesComplete(lst) ==
    \A k \in DOMAIN lst :
      (k = Len(lst) \/ lst[k + 1][3] # lst[k][3]) => XY(lst[k]) = inputs[lst[k][3]]

\* C10: with update_position running on the producer thread, the list the tick
\* takes never holds interpolated samples of a call without the call's
\* destination point, so a non-empty list ends with an input point; and while
\* the tick holds the list no update_position or clear_trail step changes it
C10_PointInTimeCopy ==
    /\ [](BatchesComplete(Snapshot))
    /\ [][(ui.pc = "draw" /\ ui.pc' = "draw") => Snapshot' = Snapshot]_vars

\* the tick holds a list while update_position is inside its locked block and
\* has already appended interpolated samples the list does not show
C10_Witness ==
    /\ ui.pc = "draw"
    /\ prod.pc = "append_end"
    /\ Snapshot # << >>
    /\ Len(hist) > Len(Snapshot) + 1

\* the tick of SpecDraw and SpecFault has drawn and updated the displayed frame
TickDone == ui.pc = "idle"

\* the lines of a frame, as a set
FrameLines == { current_frame.lines[n] : n \in DOMAIN current_frame.lines }

\* the lines draw_smooth_trail draws for a segment on its own
LinesOf(segment) == { SegmentLines(segment)[n] : n \in DOMAIN SegmentLines(segment) }

\* C11: a failure raised while drawing one segment is caught for that segment
\* only: once the tick has completed, the frame shows the lines of every segment
\* of the snapshot whose own drawing does not fail
C11_FailureCaughtPerSegment ==
    TickDone =>
      \A k \in DOMAIN Segments(Snapshot) :
        ~SegmentRaises(Segments(Snapshot)[k]) => LinesOf(Segments(Snapshot)[k]) \subseteq FrameLines

\* every sample after the first is a break start: every segment is one sample
SingleSampleSegments(lst) == \A k \in DOMAIN lst : k > 1 => lst[k][4]

\* C12: a tick whose snapshot is empty, holds one sample, or splits into
\* segments of one sample each draws no line and runs into no exception
C12_NothingToDraw ==
    (TickDone /\ SingleSampleSegments(Snapshot)) =>
      (current_frame.lines = << >> /\ ui.caught = "none")

\* a tick has drawn a list of three break starts, one of them with a NaN
\* coordinate
C12_Witness ==
    /\ TickDone
    /\ Len(Snapshot) = 3
    /\ SingleSampleSegments(Snapshot)
    /\ \E k \in DOMAIN Snapshot : Snapshot[k][1] = NaN

\* the value a button's enabled flag must have after the calls of its own setter
AfterOwnSetter(setter) == lastSet[setter] # << >> /\ lastSet[setter][1]

\* the signal of the ControlButtonsWidget that belongs to button b
OwnSignal(b) ==
    CASE b = "start" -> "start_clicked"
      [] b = "stop"  -> "stop_clicked"
      [] b = "pause" -> "pause_clicked"

\* C13: a button is enabled exactly when the last call of its own setter was
\* given True (never, if the setter was not called since construction), whatever
\* the other setters were given; a click on an enabled button emits the button's
\* own signal once and nothing else, a click on a disabled button emits nothing
C13_ButtonsEnabledAndClicks ==
    /\ btn_enabled["start"] = AfterOwnSetter("set_start_enabled")
    /\ btn_enabled["stop"] = AfterOwnSetter("set_stop_enabled")
    /\ btn_enabled["pause"] = AfterOwnSetter("set_pause_enabled")
    /\ widgetOp.name = "click" =>
         trace = (IF widgetOp.before.enabled[widgetOp.arg[1]]
                  THEN << Ev("control", OwnSignal(widgetOp.arg[1]), << >>) >>
                  ELSE << >>)

\* start was clicked and emitted while stop had been disabled again and pause
\* enabled by their own setters
C13_Witness ==
    /\ widgetOp.name = "click"
    /\ widgetOp.arg = << "start" >>
    /\ trace # << >>
    /\ lastSet["set_stop_enabled"] = << FALSE >>
    /\ lastSet["set_pause_enabled"] = << TRUE >>

\* the entries of trace that are emissions by obj of one of the signals in names
Emissions(obj, names) ==
    { i \in DOMAIN trace : trace[i].obj = obj /\ trace[i].name \in names }

AppSignalNames == DashboardSignals \cup {"language_changed", "LOGOUT_REQUEST"}

\* the signal of the DashboardWidget that belongs to a signal of the control buttons
RequestOf(sig) ==
    CASE sig = "start_clicked" -> "start_requested"
      [] sig = "stop_clicked"  -> "stop_requested"
      [] sig = "pause_clicked" -> "pause_requested"

\* C14: while the app widget holds the dashboard it built, every *_clicked of
\* the control buttons is followed at once by the matching *_requested of the
\* dashboard, every emission by the dashboard is followed at once by the emission
\* of the same signal with the same arguments by the app widget, and the app
\* widget emits nothing else
C14_SignalsReemittedOnce ==
    (Connected /\ widgetOp.name \in {"click", "dashboard_emit"}) =>
      /\ \A i \in Emissions("control", {"start_clicked", "stop_clicked", "pause_clicked"}) :
           /\ i < Len(trace)
           /\ trace[i + 1] = Ev("dashboard", RequestOf(trace[i].name), << >>)
      /\ \A i \in Emissions("dashboard", DashboardSignals) :
           /\ i < Len(trace)
           /\ trace[i + 1] = Ev("app", trace[i].name, trace[i].arg)
      /\ Cardinality(Emissions("dashboard", DashboardSignals))
           = Cardinality(Emissions("control", {"start_clicked", "stop_clicked", "pause_clicked"}))
             + (IF widgetOp.name = "dashboard_emit" THEN 1 ELSE 0)
      /\ Cardinality(Emissions("app", AppSignalNames))
           = Cardinality(Emissions("dashboard", DashboardSignals))

\* a click on the enabled stop button has gone through the dashboard to the app
\* widget
C14_Witness ==
    /\ Connected
    /\ widgetOp.name = "click"
    /\ widgetOp.arg = << "stop" >>
    /\ Len(trace) = 3
    /\ trace[3].obj = "app"

\* C15: after retranslateUi() of the ControlButtonsWidget, called directly or
\* for a LanguageChange event, the three buttons show the translations of Start,
\* Stop and Pause, whatever set_pause_text had installed
C15_RetranslateRestoresDefaults ==
    (\/ widgetOp.name = "retranslateUi"
     \/ (widgetOp.name = "changeEvent" /\ widgetOp.arg = << "LanguageChange" >>)) =>
      /\ btn_text["start"] = Tr(language, "Start")
      /\ btn_text["stop"] = Tr(language, "Stop")
      /\ btn_text["pause"] = Tr(language, "Pause")

\* a LanguageChange event reached buttons whose pause button showed the Resume
\* text of the previous language
C15_Witness ==
    /\ widgetOp.name = "changeEvent"
    /\ widgetOp.arg = << "LanguageChange" >>
    /\ language = "bg"
    /\ widgetOp.before.text["pause"] = Tr("en", "Resume")

\* the entries of trace that are calls of retranslateUi of the app widget
AppRetranslations == { i \in DOMAIN trace : trace[i] = Ev("app", "retranslateUi", << >>) }

\* C16: every retranslateUi() of the app widget first calls retranslateUi() of
\* the dashboard, which retranslates the control buttons, and then emits
\* language_changed; language_changed is emitted once per call, and a
\* LanguageChange event delivered to the app widget makes one call
C16_RetranslateThenLanguageChanged ==
    /\ \A i \in AppRetranslations :
         /\ i + 3 <= Len(trace)
         /\ trace[i + 1] = Ev("dashboard", "retranslateUi", << >>)
         /\ trace[i + 2] = Ev("control", "retranslateUi", << >>)
         /\ trace[i + 3] = Ev("app", "language_changed", << >>)
    /\ Cardinality(Emissions("app", {"language_changed"})) = Cardinality(AppRetranslations)
    /\ (\/ widgetOp.name = "app_retranslateUi"
        \/ (widgetOp.name = "app_changeEvent" /\ widgetOp.arg = << "LanguageChange" >>)) =>
         /\ Cardinality(AppRetranslations) = 1
         /\ btn_text = [ b \in Buttons |-> Tr(language, DefaultText(b)) ]

\* a LanguageChange event was delivered to the app widget after the translator
\* changed
C16_Witness ==
    /\ widgetOp.name = "app_changeEvent"
    /\ widgetOp.arg = << "LanguageChange" >>
    /\ language = "bg"
    /\ widgetOp.before.text["start"] = Tr("en", "Start")
    /\ Emissions("app", {"language_changed"}) # {}

\* C17: BasicDashboardAppWidget(config=..., action_buttons=..., cards=...)
\* returns a widget that holds the DashboardWidget it built
C17_FixtureConstructs ==
    (widgetOp.name = "construct" /\ widgetOp.arg = {"config", "action_buttons", "cards"}) =>
      (app.status = "built" /\ app.dashboard = "own")

\* the setter of a card that belongs to a cell setter
CardSetterOf(kind) ==
    CASE kind = "set_cell_weight"    -> "set_weight"
      [] kind = "set_cell_state"     -> "set_state"
      [] kind = "set_cell_glue_type" -> "set_glue_type"

\* C18: a cell setter of the app widget called with (card_id, v) calls the same
\* setter of the dashboard once with (card_id, v); the dashboard calls the
\* matching setter of the card registered under card_id once with v and calls no
\* other card; with no card under card_id nothing more happens, and nothing is
\* raised
C18_CellSettersReachTheCard ==
    widgetOp.name \in CellSetters =>
      /\ Len(trace) >= 2
      /\ trace[1] = Ev("app", widgetOp.name, widgetOp.arg)
      /\ trace[2] = Ev("dashboard", widgetOp.name, widgetOp.arg)
      /\ IF widgetOp.arg[1] \in DOMAIN cards
         THEN /\ Len(trace) = 3
              /\ trace[3] = Ev(cards[widgetOp.arg[1]], CardSetterOf(widgetOp.name),
                               << widgetOp.arg[2] >>)
         ELSE Len(trace) = 2
      /\ btn_enabled = widgetOp.before.enabled
      /\ btn_text = widgetOp.before.text

\* the setter reached card_b, registered under 2, while card_a is registered
\* under 1
C18_Witness ==
    /\ widgetOp.name = "set_cell_state"
    /\ DOMAIN cards = {1, 2}
    /\ cards[1] = "card_a"
    /\ Len(trace) = 3
    /\ trace[3].obj = "card_b"

\* C19: every click on the Finish button the wizard shows calls the
\* on_finish_callback the wizard was built with once, with the wizard as its
\* argument, with use_material_buttons True as with False
C19_FinishCallsBack ==
    (widgetOp.name = "click_finish" /\ wizard.callback) =>
      trace = << Ev("on_finish_callback", "call", << "wizard" >>) >>

\* the widgets of the built grid that cover a cell
Covering(cell) ==
    { n \in DOMAIN grid.widgets :
        cell \in BlockCells(grid.widgets[n].r, grid.widgets[n].c,
                            grid.widgets[n].row_span, grid.widgets[n].col_span) }

\* C20: after _create_action_grid with show_placeholders on, every cell of the
\* rows x cols grid is covered by exactly one widget, a button or a placeholder
C20_EveryCellCoveredOnce ==
    (grid.status = "built" /\ grid.show_placeholders) =>
      \A cell \in (0..(grid.rows - 1)) \X (0..(grid.cols - 1)) :
        Cardinality(Covering(cell)) = 1

\* the samples of a list at which a segment starts: the first sample and every
\* later break start
SegmentStarts(lst) == { k \in DOMAIN lst : k = 1 \/ lst[k][4] }

\* the last sample of the run of samples that starts at a: the sample before the
\* next break start, or the last sample of the list
RunEnd(lst, a) ==
    CHOOSE b \in a..Len(lst) :
      /\ b = Len(lst) \/ lst[b + 1][4]
      /\ \A k \in (a + 1)..b : ~lst[k][4]

\* the starts of the runs of two samples or more
LongRuns(lst) == { a \in SegmentStarts(lst) : RunEnd(lst, a) > a }

\* segment is the run of samples a..b of the list, in the order of the list
IsRun(segment, lst, a, b) ==
    /\ Len(segment) = b - a + 1
    /\ \A j \in DOMAIN segment :
         /\ segment[j].idx = a + j - 1
         /\ segment[j].xy = << lst[a + j - 1][1], lst[a + j - 1][2] >>

\* C21: the segments of a snapshot are its runs of samples from one segment
\* start (the first sample, or a later sample tagged is_break_start) up to the
\* sample before the next one, in snapshot order, without the runs of a single
\* sample; every line drawn comes from the samples of one run of two or more
C21_SegmentsAreBreakRuns ==
    TickDone =>
      LET segs == Segments(Snapshot)
      IN  /\ Len(segs) = Cardinality(LongRuns(Snapshot))
          /\ \A a \in LongRuns(Snapshot) :
               \E s \in DOMAIN segs : IsRun(segs[s], Snapshot, a, RunEnd(Snapshot, a))
          /\ \A s \in DOMAIN segs : \A t \in DOMAIN segs :
               s < t => segs[s][Len(segs[s])].idx < segs[t][1].idx
          /\ \A n \in DOMAIN current_frame.lines :
               \E a \in LongRuns(Snapshot) :
                 LineSources(current_frame.lines[n]) \subseteq a..RunEnd(Snapshot, a)

\* a snapshot that starts with a break start, holds a run of one sample between
\* two runs of two or more, and has lines drawn from both of these
C21_Witness ==
    /\ TickDone
    /\ Snapshot # << >>
    /\ Snapshot[1][4]
    /\ \E a \in SegmentStarts(Snapshot) :
         /\ RunEnd(Snapshot, a) = a
         /\ \E n \in DOMAIN current_frame.lines :
              \A k \in LineSources(current_frame.lines[n]) : k < a
         /\ \E n \in DOMAIN current_frame.lines :
              \A k \in LineSources(current_frame.lines[n]) : k > a

\* coordinate c of raw point j of a segment, 0 before the segment's first point
Raw(segment, j, c) == IF j >= 1 THEN segment[j].xy[c] ELSE 0

\* the sum of coordinate c over the raw points max(1, i-2)..i of a segment
WindowSum(segment, i, c) == Raw(segment, i, c) + Raw(segment, i - 1, c) + Raw(segment, i - 2, c)

\* the number of raw points max(1, i-2)..i
WindowCount(i) == IF i >= 3 THEN 3 ELSE i

\* s / n truncated toward zero is t
IsTruncOf(s, n, t) == IF s >= 0 THEN n * t <= s /\ s < n * t + n
                                ELSE n * t - n < s /\ s <= n * t

\* p is the mean, truncated to integers, of the raw points max(1, i-2)..i
IsWindowMean(segment, i, p) ==
    /\ IsTruncOf(WindowSum(segment, i, 1), WindowCount(i), p[1])
    /\ IsTruncOf(WindowSum(segment, i, 2), WindowCount(i), p[2])

\* C22: a segment of n >= 2 raw points is smoothed into n points, the i-th the
\* componentwise mean, truncated to integers, of the raw points max(0, i-2)..i
\* (0-based) of the same segment; the first smoothed point is the first raw
\* point, no smoothed point uses a later raw point, and every trail line drawn
\* joins two consecutive smoothed points of one segment
C22_CausalMovingAverage ==
    TickDone =>
      /\ \A s \in DOMAIN Segments(Snapshot) :
           LET segment  == Segments(Snapshot)[s]
               smoothed == SmoothedPoints(segment)
           IN  /\ Len(segment) >= 2
               /\ Len(smoothed) = Len(segment)
               /\ smoothed[1].xy = segment[1].xy
               /\ \A i \in DOMAIN smoothed :
                    /\ IsWindowMean(segment, i, smoothed[i].xy)
                    /\ \A k \in smoothed[i].from :
                         /\ k <= segment[i].idx
                         /\ k >= segment[1].idx
                         /\ k > segment[i].idx - kernel_size
      /\ \A n \in DOMAIN current_frame.lines :
           current_frame.lines[n].kind = "trail" =>
             \E s \in DOMAIN Segments(Snapshot) :
               LET segment == Segments(Snapshot)[s]
                   line    == current_frame.lines[n]
               IN  /\ line.total = Len(segment)
                   /\ line.i + 2 <= Len(segment)
                   /\ segment[line.i + 1].idx \in line.from1
                   /\ IsWindowMean(segment, line.i + 1, line.p1)
                   /\ IsWindowMean(segment, line.i + 2, line.p2)

\* a trail line is drawn to a smoothed point whose window of three raw points
\* has a negative sum of x that 3 does not divide: truncation rounds it up
C22_Witness ==
    /\ TickDone
    /\ \E s \in DOMAIN Segments(Snapshot) :
         \E i \in DOMAIN Segments(Snapshot)[s] :
           /\ i >= 3
           /\ WindowSum(Segments(Snapshot)[s], i, 1) < 0
           /\ WindowSum(Segments(Snapshot)[s], i, 1) % 3 # 0
           /\ \E n \in DOMAIN current_frame.lines :
                /\ current_frame.lines[n].kind = "trail"
                /\ current_frame.lines[n].from2 =
                     { Segments(Snapshot)[s][j].idx : j \in (i - 2)..i }

\* the trail lines of the displayed frame
TrailLinesDrawn == { line \in FrameLines : line.kind = "trail" }

\* the band of a progress of num / den: below 30%, below 70%, the rest
BandOf(progress) ==
    IF 10 * progress[1] < 3 * progress[2] THEN 1
    ELSE IF 10 * progress[1] < 7 * progress[2] THEN 2
    ELSE 3

\* C23: along a segment the progress of the drawn lines is 0.0 at the start of
\* the segment (its first line) and 1.0 at its end (its last line), and a line
\* takes the first band below 30%, the second from 30% to below 70% and the
\* third from 70% on
C23_ProgressFromZeroToOne ==
    TickDone =>
      \A line \in TrailLinesDrawn :
        /\ line.band = BandOf(Progress(line.i, line.total))
        /\ line.i = 0 => Progress(line.i, line.total)[1] = 0
        /\ line.i = line.total - 2 =>
             Progress(line.i, line.total)[1] = Progress(line.i, line.total)[2]

\* the bands alone: every trail line drawn has the band of its progress
BandsFollowProgress ==
    TickDone => \A line \in TrailLinesDrawn : line.band = BandOf(Progress(line.i, line.total))

\* t = floor(2 + 4 * progress) for the progress num / den
IsFloorOfThickness(progress, t) ==
    /\ progress[2] * t <= 2 * progress[2] + 4 * progress[1]
    /\ 2 * progress[2] + 4 * progress[1] < progress[2] * (t + 1)

\* two trail lines of the same segment
SameSegment(l1, l2) ==
    \E a \in LongRuns(Snapshot) :
      LineSources(l1) \cup LineSources(l2) \subseteq a..RunEnd(Snapshot, a)

\* C24: the thickness of a trail line is floor(2 + 4 * progress) of its own
\* progress; it lies between 2 and 6, and of two lines of one segment the later
\* one is at least as thick
C24_ThicknessGrows ==
    TickDone =>
      /\ \A line \in TrailLinesDrawn :
           /\ IsFloorOfThickness(Progress(line.i, line.total), line.thickness)
           /\ 2 <= line.thickness
           /\ line.thickness <= 6
      /\ \A l1 \in TrailLinesDrawn : \A l2 \in TrailLinesDrawn :
           (SameSegment(l1, l2) /\ l1.i <= l2.i) => l1.thickness <= l2.thickness

\* a segment drawn with lines of thickness 2, 3, 4 and 5
C24_Witness ==
    /\ TickDone
    /\ \E l1 \in TrailLinesDrawn :
         /\ l1.thickness = 2
         /\ \A t \in 3..5 :
              \E l2 \in TrailLinesDrawn :
                SameSegment(l1, l2) /\ l2.i > l1.i /\ l2.thickness = t

\* the point (x, y) lies inside the image: 0 <= x < width and 0 <= y < height
Inside(p) == p[1] \in 0..(image_width - 1) /\ p[2] \in 0..(image_height - 1)

\* the frame shows a line of this kind between smoothed points j and j + 1
\* (1-based) of a segment
Shows(kind, segment, j) ==
    \E line \in FrameLines :
      /\ line.kind = kind
      /\ line.p1 = SmoothedPoints(segment)[j].xy
      /\ line.p2 = SmoothedPoints(segment)[j + 1].xy
      /\ line.from1 = SmoothedPoints(segment)[j].from
      /\ line.from2 = SmoothedPoints(segment)[j + 1].from

\* both smoothed points j and j + 1 of a segment lie inside the image
PairInside(segment, j) ==
    Inside(SmoothedPoints(segment)[j].xy) /\ Inside(SmoothedPoints(segment)[j + 1].xy)

\* C30: every line of the frame, trail or highlight, has both endpoints inside
\* the image, and every pair of consecutive smoothed points of every segment
\* that lies inside the image has its trail line (and, among the last five
\* points of a segment of more than five, its two highlight strokes) in the
\* frame, whatever happens to the other pairs
C30_OutOfBoundsLinesSkippedAlone ==
    TickDone =>
      /\ \A line \in FrameLines : Inside(line.p1) /\ Inside(line.p2)
      /\ \A s \in DOMAIN Segments(Snapshot) :
           LET segment == Segments(Snapshot)[s]
           IN  \A j \in 1..(Len(segment) - 1) :
                 /\ Shows("trail", segment, j) <=> PairInside(segment, j)
                 /\ (Len(segment) > RecentCount /\ j > Len(segment) - RecentCount) =>
                      /\ Shows("halo", segment, j) <=> PairInside(segment, j)
                      /\ Shows("core", segment, j) <=> PairInside(segment, j)

\* a segment with a pair outside the image that is not drawn and a later pair
\* of the same segment that is drawn, and a line drawn for another segment
C30_Witness ==
    /\ TickDone
    /\ \E s \in DOMAIN Segments(Snapshot) :
         LET segment == Segments(Snapshot)[s]
         IN  /\ \E j \in 1..(Len(segment) - 1) :
                  /\ ~PairInside(segment, j)
                  /\ ~Shows("trail", segment, j)
                  /\ \E k \in (j + 1)..(Len(segment) - 1) :
                       Shows("trail", segment, k)
             /\ \E t \in DOMAIN Segments(Snapshot) :
                  t # s /\ Shows("trail", Segments(Snapshot)[t], 1)

\* C29: with one call at a time, the buffer is empty exactly when
\* current_position is unset, and the last sample of a non-empty buffer has the
\* coordinates of current_position
C29_BufferEndsAtCurrentPosition ==
    /\ trajectory_points = << >> <=> current_position = None
    /\ trajectory_points # << >> =>
         XY(trajectory_points[Len(trajectory_points)]) = current_position

\* an update_position that interpolated into a full buffer and evicted samples,
\* after a second start of the trail earlier in the run
C29_Witness ==
    /\ call.op = "update_position"
    /\ Interpolates(last_position)
    /\ Len(trajectory_points) = trail_length
    /\ Len(hist) > trail_length
    /\ call.starts > 1

\* C27: with update_position running on the producer thread while clear_trail
\* runs on the UI thread, the first sample appended to the buffer after a
\* clear_trail has completed (hist holds the samples appended since the buffer
\* was last emptied) is tagged is_break_start
C27_FirstSampleAfterClearIsBreakStart ==
    (hist # << >> /\ ui.pc \notin {"clear_points", "clear_current", "clear_last"}) =>
      hist[1][4]

\* C28: with clear_trail running on the UI thread, update_position never fails:
\* add_interpolated_points is never entered with an unset start or end position
C28_UpdatePositionNeverFails ==
    /\ ~prod.failed
    /\ prod.pc \in {"unpack", "interp_lock", "interp_loop", "append_end"} =>
         (prod.start_pos # None /\ prod.end_pos # None)

\* the trail as the last operation found it
TrailUntouched ==
    /\ trajectory_points = call.before.points
    /\ current_position = call.before.current
    /\ last_position = call.before.last

\* the trail after clear()
TrailEmptied ==
    /\ trajectory_points = << >>
    /\ current_position = None
    /\ last_position = None

\* the message of the last set_image carried a frame which is now the background
FrameInstalled ==
    /\ call.message.type = "dict"
    /\ "image" \in call.message.keys
    /\ call.message.image \notin {"none", "broken"}
    /\ base_frame = call.message.image

\* C25: set_image empties the trail exactly when its message carries a frame
\* that is installed as the new background; with a None message, a message that
\* is not a dict or a dict without "image" it changes neither the background nor
\* the trail; disable_drawing always empties the trail and turns drawing off
C25_TrailEmptiedWithNewFrame ==
    /\ call.op = "set_image" =>
         /\ FrameInstalled => TrailEmptied
         /\ ~FrameInstalled => TrailUntouched
         /\ (call.message.type # "dict" \/ "image" \notin call.message.keys) =>
              (base_frame = call.before.base /\ current_frame = call.before.frame
               /\ TrailUntouched)
    /\ call.op = "disable_drawing" => (TrailEmptied /\ ~drawing_enabled)

\* a set_image with a frame has replaced the placeholder and emptied a trail of
\* several samples
C25_Witness ==
    /\ call.op = "set_image"
    /\ FrameInstalled
    /\ call.before.base = Placeholder
    /\ Len(call.before.points) > 1
    /\ call.before.current # None
    /\ TrailEmptied

\* C26: after a tick the displayed frame is a copy of the current background
\* with exactly the lines of the current snapshot drawn on it when drawing is
\* enabled, and with no line when drawing is disabled or the snapshot is empty;
\* nothing an earlier tick drew is left on it, and the tick leaves the stored
\* background as it was
C26_FrameRedrawnFromBackground ==
    call.op = "update_display" =>
      /\ current_frame.base = base_frame
      /\ base_frame = call.before.base
      /\ drawing_enabled => current_frame.lines = DrawSmoothTrail(Snapshot)
      /\ (~drawing_enabled \/ Snapshot = << >>) => current_frame.lines = << >>
      /\ Snapshot = call.before.points

\* the tick that follows a frame with a trail on it and a set_image that
\* emptied the buffer: drawing is enabled and the new frame shows the new
\* background without a line
C26_Witness ==
    /\ call.op = "update_display"
    /\ drawing_enabled
    /\ call.before.frame.lines # << >>
    /\ call.before.frame.base = Placeholder
    /\ current_frame = FrameCopy("frame")

====
